---- MODULE Spec2Model ----
(***************************************************************************)
(* A model of the Shopot core: the three cipher generations of             *)
(* shopot/crypto.py, password validation and key derivation of             *)
(* shopot/passwords.py, the pattern registry of shopot/patterns.py and the *)
(* key-array store of shopot/keyfiles.py.                                  *)
(*                                                                         *)
(* Conventions.  A Python `bytes` value is a sequence of integers 0..255.  *)
(* A Python `str` is a sequence of Unicode code points.  Coordinates, rows *)
(* and columns are 0-based as in the source; TLA+ sequences are 1-based,   *)
(* so cell (row, col) of a layer is layer[row + 1][col + 1].               *)
(***************************************************************************)
EXTENDS Integers, Sequences, FiniteSets, TLC

VARIABLES
    payload,    \* the payload object last produced by an encrypt (or NoPayload)
    gen,        \* the generation (1, 2, 3) that produced payload; 0 when none
    plain,      \* the plaintext that was encrypted into payload
    keyUsed,    \* the key material that was used to encrypt it
    tampered,   \* the field of payload changed since encryption, or "none"
    outcome,    \* the result of the last encrypt/decrypt call
    current_key_array,  \* the KeyArray object in use (or NoKeyArray)
    derivation, \* the last validate_password / password_to_key_material call
    remembered, \* the first successful password_to_key_material call
    live,       \* a pattern generator some caller is iterating (or NoGenerator)
    key_file,   \* the text of the key file (or NoFile)
    dumped,     \* the key array whose dump key_file is (or NoKeyArray)
    lastLoad,   \* the last KeyArray.load call
    query,      \* the last KeyArray.layer / registry.coordinates call
    doc_file,   \* the text of the document file (or NoFile)
    saved,      \* the text and key material doc_file was saved with (or NoSave)
    docCall,    \* the last ShopotDocument.save / ShopotDocument.load call
    wire,       \* a payload as to_dict returned it, and the bit changed in it
    wireCall,   \* the last from_dict and decrypt of wire
    streamCall, \* an encryption of a plaintext of a chosen length
    page,       \* the KeyArrayPage: key_array, current_layer, label and text
    pageCall,   \* the last KeyArrayPage handler run
    editor,     \* the document editor and the page the window shows
    disk,       \* the document files, by path
    editorCall  \* the last editor handler run

cryptoVars == <<payload, gen, plain, keyUsed, tampered, outcome>>
deriveVars == <<derivation, remembered, live>>

keyVars == <<key_file, dumped, lastLoad>>
docVars == <<doc_file, saved, docCall>>
wireVars == <<wire, wireCall>>
pageVars == <<page, pageCall>>
editorVars == <<editor, disk, editorCall>>
guiVars == <<pageVars, editorVars>>
vars ==
    <<cryptoVars, current_key_array, deriveVars, keyVars, query, docVars, wireVars,
      streamCall, guiVars>>

(***************************************************************************)
(* Bytes and strings                                                       *)
(***************************************************************************)

\* p ^ k on two bytes (Python's int.__xor__), bit by bit.
RECURSIVE Xor(_, _)
Xor(a, b) ==
    IF a = 0 THEN b
    ELSE IF b = 0 THEN a
    ELSE (((a % 2) + (b % 2)) % 2) + (2 * Xor(a \div 2, b \div 2))

\* Mutant of XorBytes: the bytes are added instead of xor-ed.
XorBytesAdded(x, y) ==
    LET n == IF Len(x) < Len(y) THEN Len(x) ELSE Len(y)
    IN  [i \in 1..n |-> (x[i] + y[i]) % 256]

\* bytes(p ^ k for p, k in zip(x, y)): zip stops at the shorter argument.
XorBytes(x, y) ==
    LET n == IF Len(x) < Len(y) THEN Len(x) ELSE Len(y)
    IN  [i \in 1..n |-> Xor(x[i], y[i])]

\* One code point encoded as UTF-8 (one, two or three bytes).
Utf8OfCodePoint(cp) ==
    IF cp < 128 THEN <<cp>>
    ELSE IF cp < 2048 THEN <<192 + (cp \div 64), 128 + (cp % 64)>>
    ELSE IF cp < 65536
         THEN <<224 + (cp \div 4096), 128 + ((cp \div 64) % 64), 128 + (cp % 64)>>
    ELSE <<240 + (cp \div 262144), 128 + ((cp \div 4096) % 64),
           128 + ((cp \div 64) % 64), 128 + (cp % 64)>>

\* str.encode("utf-8")
\* The encoding of s[lo..hi], the concatenation of its code points' encodings.
RECURSIVE Utf8EncodeFrom(_, _, _)
Utf8EncodeFrom(s, lo, hi) ==
    IF lo > hi THEN <<>>
    ELSE IF lo = hi THEN Utf8OfCodePoint(s[lo])
    ELSE LET mid == (lo + hi) \div 2
         IN  Utf8EncodeFrom(s, lo, mid) \o Utf8EncodeFrom(s, mid + 1, hi)

Utf8Encode(s) == Utf8EncodeFrom(s, 1, Len(s))

\* counter.to_bytes(8, "big")
CounterBytes(counter) ==
    [i \in 1..8 |-> IF i <= 4 THEN 0 ELSE (counter \div (256 ^ (8 - i))) % 256]

(***************************************************************************)
(* The hash primitives.  hashlib and hmac are modelled by a keyed          *)
(* polynomial fingerprint modulo the prime 32749, expanded to a digest of  *)
(* the primitive's length; each primitive starts from its own seed.  The   *)
(* fingerprint of a message changes whenever one byte of the message       *)
(* changes (257^k is invertible modulo a prime), and changes with the      *)
(* value absorbed before it: these are the properties of the real          *)
(* primitives the cipher relies on.                                        *)
(***************************************************************************)

\* 257^k modulo 32749, by squaring.
RECURSIVE PowMod(_)
PowMod(k) ==
    IF k = 0 THEN 1
    ELSE LET h == PowMod(k \div 2)
             sq == (h * h) % 32749
         IN  IF k % 2 = 1 THEN (sq * 257) % 32749 ELSE sq

\* The polynomial sum of (msg[i] + 1) * 257^(hi - i) for i in lo..hi.
RECURSIVE PolySum(_, _, _)
PolySum(msg, lo, hi) ==
    IF lo > hi THEN 0
    ELSE IF lo = hi THEN msg[lo] + 1
    ELSE LET mid == (lo + hi) \div 2
         IN  (PolySum(msg, lo, mid) * PowMod(hi - mid) + PolySum(msg, mid + 1, hi))
                % 32749

\* The fingerprint h after absorbing msg.
Absorb(h, msg) == (h * PowMod(Len(msg)) + PolySum(msg, 1, Len(msg))) % 32749

\* The digest bytes: every byte pair holds one 15-bit value derived from h.
DigestBytes(h, n) ==
    [j \in 1..n |->
        LET v == (h + 31 * ((j - 1) \div 2)) % 32749
        IN  IF j % 2 = 1 THEN v % 256 ELSE v \div 256]

\* hashlib.sha256(msg).digest()
Sha256(msg) == DigestBytes(Absorb(1, msg), 32)

\* hashlib.sha512(msg).digest()
Sha512(msg) == DigestBytes(Absorb(2, msg), 64)

\* hmac.new(key, msg, hashlib.sha256).digest()
HmacSha256(key, msg) == DigestBytes(Absorb(Absorb(3, key), msg), 32)

\* hmac.new(key, msg, hashlib.sha512).digest()
HmacSha512(key, msg) == DigestBytes(Absorb(Absorb(4, key), msg), 64)

\* hashlib.pbkdf2_hmac("sha256", password, salt, iterations, dklen)
Pbkdf2HmacSha256(password, salt, iterations, dklen) ==
    DigestBytes(Absorb(Absorb((5 + iterations) % 32749, password), salt), dklen)

\* hmac.compare_digest(a, b)
CompareDigest(a, b) == a = b

(***************************************************************************)
(* shopot/crypto.py                                                        *)
(***************************************************************************)

PBKDF2_ITERATIONS == 200000
SALT_SIZE == 16
NONCE_SIZE == 16

\* _derive_keys: (derived[:32], derived[32:])
DeriveKeys(key_material, salt) ==
    LET derived == Pbkdf2HmacSha256(Utf8Encode(key_material), salt,
                                    PBKDF2_ITERATIONS, 64)
    IN  [enc_key |-> SubSeq(derived, 1, 32), mac_key |-> SubSeq(derived, 33, 64)]

\* _material_bytes: the encoded material, or the empty-material error.
MaterialBytes(key_material) ==
    LET material == Utf8Encode(key_material)
    IN  IF material = <<>> THEN [error |-> "empty_key_material", bytes |-> <<>>]
        ELSE [error |-> "none", bytes |-> material]

\* The while loop of _keystream_v2, from (counter, stream) on.
RECURSIVE KeystreamV2Loop(_, _, _, _, _)
KeystreamV2Loop(key, nonce, length, counter, stream) ==
    IF Len(stream) < length
    THEN KeystreamV2Loop(key, nonce, length, counter + 1,
                         stream \o HmacSha512(key, nonce \o CounterBytes(counter)))
    ELSE [stream |-> SubSeq(stream, 1, length), blocks |-> counter]

KeystreamV2(key, nonce, length) == KeystreamV2Loop(key, nonce, length, 0, <<>>)

\* material[rotation:] + material[:rotation]
Rotated(material, rotation) ==
    SubSeq(material, rotation + 1, Len(material)) \o SubSeq(material, 1, rotation)

\* The while loop of _keystream_v3, from (counter, stream) on.
RECURSIVE KeystreamV3Loop(_, _, _, _, _, _, _)
KeystreamV3Loop(key, salt, nonce, material, length, counter, stream) ==
    IF Len(stream) < length
    THEN LET rotation == counter % Len(material)
             digest_input == salt \o nonce \o CounterBytes(counter)
                                  \o Rotated(material, rotation)
         IN  KeystreamV3Loop(key, salt, nonce, material, length, counter + 1,
                             stream \o HmacSha512(key, digest_input))
    ELSE [stream |-> SubSeq(stream, 1, length), blocks |-> counter]

KeystreamV3(key, salt, nonce, material, length) ==
    IF Len(material) = 0
    THEN [error |-> "empty_key_material", stream |-> <<>>, blocks |-> 0]
    ELSE KeystreamV3Loop(key, salt, nonce, material, length, 0, <<>>)
            @@ [error |-> "none"]

\* Mutant of KeystreamLegacyLoop: the first block is numbered 1.
RECURSIVE KeystreamLegacyLoopFromOne(_, _, _, _)
KeystreamLegacyLoopFromOne(seed, length, counter, keystream) ==
    IF Len(keystream) < length
    THEN KeystreamLegacyLoopFromOne(seed, length, counter + 1,
                                    keystream \o Sha512(seed \o CounterBytes(counter + 1)))
    ELSE [stream |-> keystream, blocks |-> counter]

\* The while loop of encrypt_legacy / decrypt_legacy.
RECURSIVE KeystreamLegacyLoop(_, _, _, _)
KeystreamLegacyLoop(seed, length, counter, keystream) ==
    IF Len(keystream) < length
    THEN KeystreamLegacyLoop(seed, length, counter + 1,
                             keystream \o Sha512(seed \o CounterBytes(counter)))
    ELSE [stream |-> keystream, blocks |-> counter]

\* The result of a call: status "ok" with its value, or the error raised.
\* blocks counts the keystream blocks the call computed and steps lists, in
\* order, the helpers it called before it returned or raised.
Result(status, data, blocks, steps) ==
    [status |-> status, data |-> data, blocks |-> blocks, steps |-> steps]

\* Mutant of MacInputV2: the nonce is left out of the MAC.
MacInputV2NoNonce(salt, nonce, ciphertext) == ciphertext

\* The MAC input of the v2 scheme: nonce + ciphertext.
MacInputV2(salt, nonce, ciphertext) == nonce \o ciphertext

\* The MAC input of the v3 scheme: salt + nonce + ciphertext + material_digest.
MacInputV3(salt, nonce, ciphertext, material_digest) ==
    salt \o nonce \o ciphertext \o material_digest

\* encrypt_v2, with the salt and nonce os.urandom returned.
EncryptV2Fn(plaintext, key_material, salt, nonce) ==
    LET keys == DeriveKeys(key_material, salt)
        ks == KeystreamV2(keys.enc_key, nonce, Len(plaintext))
        ciphertext == XorBytes(plaintext, ks.stream)
        mac == HmacSha256(keys.mac_key, MacInputV2(salt, nonce, ciphertext))
    IN  Result("ok",
               [class |-> "EncryptedPayload", salt |-> salt, nonce |-> nonce,
                ciphertext |-> ciphertext, mac |-> mac],
               ks.blocks, <<"_derive_keys", "_keystream_v2", "hmac">>)

\* Mutant of DecryptV2Fn: the keystream is generated before the MAC is compared.
DecryptV2FnKeystreamFirst(p, key_material) ==
    LET keys == DeriveKeys(key_material, p.salt)
        ks == KeystreamV2(keys.enc_key, p.nonce, Len(p.ciphertext))
        expected_mac == HmacSha256(keys.mac_key,
                                   MacInputV2(p.salt, p.nonce, p.ciphertext))
    IN  IF ~CompareDigest(expected_mac, p.mac)
        THEN Result("authentication_failed", <<>>, ks.blocks,
                    <<"_derive_keys", "_keystream_v2", "hmac">>)
        ELSE Result("ok", XorBytes(p.ciphertext, ks.stream), ks.blocks,
                    <<"_derive_keys", "_keystream_v2", "hmac">>)

\* decrypt_v2
DecryptV2Fn(p, key_material) ==
    LET keys == DeriveKeys(key_material, p.salt)
        expected_mac == HmacSha256(keys.mac_key,
                                   MacInputV2(p.salt, p.nonce, p.ciphertext))
    IN  IF ~CompareDigest(expected_mac, p.mac)
        THEN Result("authentication_failed", <<>>, 0, <<"_derive_keys", "hmac">>)
        ELSE LET ks == KeystreamV2(keys.enc_key, p.nonce, Len(p.ciphertext))
             IN  Result("ok", XorBytes(p.ciphertext, ks.stream), ks.blocks,
                        <<"_derive_keys", "hmac", "_keystream_v2">>)

\* encrypt (v3), with the salt and nonce os.urandom returned.
EncryptFn(plaintext, key_material, salt, nonce) ==
    LET m == MaterialBytes(key_material)
    IN  IF m.error # "none" THEN Result(m.error, <<>>, 0, <<"_material_bytes">>)
        ELSE
        LET material == m.bytes
            keys == DeriveKeys(key_material, salt)
            ks == KeystreamV3(keys.enc_key, salt, nonce, material, Len(plaintext))
            ciphertext == XorBytes(plaintext, ks.stream)
            material_digest == Sha512(material)
            mac == HmacSha256(keys.mac_key,
                              MacInputV3(salt, nonce, ciphertext, material_digest))
        IN  Result("ok",
                   [class |-> "EncryptedPayload", salt |-> salt, nonce |-> nonce,
                    ciphertext |-> ciphertext, mac |-> mac],
                   ks.blocks,
                   <<"_material_bytes", "_derive_keys", "_keystream_v3", "sha512",
                     "hmac">>)

\* Mutant of DecryptFn: the material is looked at only after the MAC has
\* been compared.
DecryptFnMaterialLate(p, key_material) ==
    LET keys == DeriveKeys(key_material, p.salt)
        material_digest == Sha512(Utf8Encode(key_material))
        expected_mac ==
            HmacSha256(keys.mac_key,
                       MacInputV3(p.salt, p.nonce, p.ciphertext, material_digest))
        m == MaterialBytes(key_material)
    IN  IF ~CompareDigest(expected_mac, p.mac)
        THEN Result("authentication_failed", <<>>, 0,
                    <<"_derive_keys", "sha512", "hmac">>)
        ELSE IF m.error # "none"
        THEN Result(m.error, <<>>, 0,
                    <<"_derive_keys", "sha512", "hmac", "_material_bytes">>)
        ELSE LET ks == KeystreamV3(keys.enc_key, p.salt, p.nonce, m.bytes,
                                   Len(p.ciphertext))
             IN  Result("ok", XorBytes(p.ciphertext, ks.stream), ks.blocks,
                        <<"_derive_keys", "sha512", "hmac", "_material_bytes",
                          "_keystream_v3">>)

\* decrypt (v3)
DecryptFn(p, key_material) ==
    LET m == MaterialBytes(key_material)
    IN  IF m.error # "none" THEN Result(m.error, <<>>, 0, <<"_material_bytes">>)
        ELSE
        LET material == m.bytes
            keys == DeriveKeys(key_material, p.salt)
            material_digest == Sha512(material)
            expected_mac ==
                HmacSha256(keys.mac_key,
                           MacInputV3(p.salt, p.nonce, p.ciphertext, material_digest))
        IN  IF ~CompareDigest(expected_mac, p.mac)
            THEN Result("authentication_failed", <<>>, 0,
                        <<"_material_bytes", "_derive_keys", "sha512", "hmac">>)
            ELSE LET ks == KeystreamV3(keys.enc_key, p.salt, p.nonce, material,
                                       Len(p.ciphertext))
                 IN  Result("ok", XorBytes(p.ciphertext, ks.stream), ks.blocks,
                            <<"_material_bytes", "_derive_keys", "sha512", "hmac",
                              "_keystream_v3">>)

\* encrypt_legacy, with the salt os.urandom returned.
EncryptLegacyFn(plaintext, key_material, salt) ==
    LET seed == Sha256(Utf8Encode(key_material) \o salt)
        ks == KeystreamLegacyLoop(seed, Len(plaintext), 0, <<>>)
        ciphertext == XorBytes(plaintext, SubSeq(ks.stream, 1, Len(plaintext)))
    IN  Result("ok",
               [class |-> "LegacyEncryptedPayload", salt |-> salt,
                ciphertext |-> ciphertext],
               ks.blocks, <<"sha256">>)

\* Mutant of DecryptLegacyFn: each byte is also mixed with the ciphertext
\* byte before it.
DecryptLegacyFnChained(p, key_material) ==
    LET seed == Sha256(Utf8Encode(key_material) \o p.salt)
        ks == KeystreamLegacyLoop(seed, Len(p.ciphertext), 0, <<>>)
        plaintext == XorBytes(p.ciphertext, SubSeq(ks.stream, 1, Len(p.ciphertext)))
    IN  Result("ok",
               [i \in 1..Len(plaintext) |->
                  IF i = 1 THEN plaintext[i] ELSE Xor(plaintext[i], p.ciphertext[i - 1])],
               ks.blocks, <<"sha256">>)

\* decrypt_legacy
DecryptLegacyFn(p, key_material) ==
    LET seed == Sha256(Utf8Encode(key_material) \o p.salt)
        ks == KeystreamLegacyLoop(seed, Len(p.ciphertext), 0, <<>>)
    IN  Result("ok",
               XorBytes(p.ciphertext, SubSeq(ks.stream, 1, Len(p.ciphertext))),
               ks.blocks, <<"sha256">>)

(***************************************************************************)
(* Python values.  A value is a record [t, v]: t is its type and v its     *)
(* content as a sequence (the code points of a str, the items of a list,   *)
(* the one integer of an int, 1 or 0 for True or False, the items          *)
(* [key, value] of a dict in insertion order, nothing for None).           *)
(***************************************************************************)

PyStr(s) == [t |-> "str", v |-> s]
PyList(items) == [t |-> "list", v |-> items]
PyInt(n) == [t |-> "int", v |-> <<n>>]
PyNone == [t |-> "NoneType", v |-> <<>>]
PyEmptyDict == [t |-> "dict", v |-> <<>>]
PyBool(b) == [t |-> "bool", v |-> <<IF b THEN 1 ELSE 0>>]
PyDict(items) == [t |-> "dict", v |-> items]

\* key in d, and d[key], for a dict d and a str key.
DictHas(d, key) == \E i \in 1..Len(d.v) : d.v[i].key = key
DictItem(d, key) == d.v[CHOOSE i \in 1..Len(d.v) : d.v[i].key = key].value

\* dict(pairs), for pairs in the order of their appearance: a key that
\* appears again keeps its place and takes the later value.
RECURSIVE DictOf(_, _)
DictOf(pairs, items) ==
    IF pairs = <<>> THEN PyDict(items)
    ELSE LET pair == Head(pairs)
         IN  IF \E i \in 1..Len(items) : items[i].key = pair.key
             THEN DictOf(Tail(pairs),
                         [i \in 1..Len(items) |->
                            IF items[i].key = pair.key THEN pair ELSE items[i]])
             ELSE DictOf(Tail(pairs), Append(items, pair))

\* The result of an expression: its value, or the exception it raised.
Value(x) == [error |-> "none", value |-> x]
Raised(e) == [error |-> e, value |-> PyNone]

\* items[i] on a Python list: a negative index counts from the end.
ListIndex(items, i) ==
    LET n == Len(items)
    IN  IF 0 <= i /\ i < n THEN Value(items[i + 1])
        ELSE IF -n <= i /\ i < 0 THEN Value(items[n + i + 1])
        ELSE Raised("IndexError")

\* The yields of consecutive loops, one after the other.
RECURSIVE ChainOf(_, _, _)
ChainOf(seqs, lo, hi) ==
    IF lo > hi THEN <<>>
    ELSE IF lo = hi THEN seqs[lo]
    ELSE LET mid == (lo + hi) \div 2
         IN  ChainOf(seqs, lo, mid) \o ChainOf(seqs, mid + 1, hi)

Chain(seqs) == ChainOf(seqs, 1, Len(seqs))

\* range(a, b) and range(a, b, -1)
Range(a, b) == [i \in 1..(b - a) |-> a + i - 1]
RangeDown(a, b) == [i \in 1..(a - b) |-> a - i + 1]

(***************************************************************************)
(* shopot/patterns.py.  A pattern yields (row, col) pairs; the sequence of *)
(* all its yields is what draining its generator gives.                    *)
(***************************************************************************)

\* _all_coordinates
AllCoordinates(layer) ==
    LET size == Len(layer.v)
    IN  Chain([r \in 1..size |-> [c \in 1..size |-> <<r - 1, c - 1>>]])

pattern_fill(layer) == AllCoordinates(layer)

pattern_checkerboard_a(layer) ==
    LET size == Len(layer.v)
    IN  Chain([r \in 1..size |->
                 SelectSeq([c \in 1..size |-> <<r - 1, c - 1>>],
                           LAMBDA rc : (rc[1] + rc[2]) % 2 = 0)])

\* Mutant of pattern_checkerboard_b: the odd columns instead of the odd sums.
pattern_checkerboard_b_columns(layer) ==
    LET size == Len(layer.v)
    IN  Chain([r \in 1..size |->
                 SelectSeq([c \in 1..size |-> <<r - 1, c - 1>>],
                           LAMBDA rc : rc[2] % 2 = 1)])

pattern_checkerboard_b(layer) ==
    LET size == Len(layer.v)
    IN  Chain([r \in 1..size |->
                 SelectSeq([c \in 1..size |-> <<r - 1, c - 1>>],
                           LAMBDA rc : (rc[1] + rc[2]) % 2 = 1)])

pattern_plus(layer) ==
    LET size == Len(layer.v)
        center == size \div 2
    IN  [c \in 1..size |-> <<center, c - 1>>]
        \o SelectSeq([r \in 1..size |-> <<r - 1, center>>],
                     LAMBDA rc : rc[1] # center)

pattern_border(layer) ==
    LET size == Len(layer.v)
        last == size - 1
        rows == Range(1, last)
    IN  [c \in 1..size |-> <<0, c - 1>>]
        \o Chain([k \in 1..Len(rows) |-> << <<rows[k], 0>>, <<rows[k], last>> >>])
        \o [c \in 1..size |-> <<last, c - 1>>]

pattern_diagonal(layer) ==
    LET size == Len(layer.v)
    IN  [i \in 1..size |-> <<i - 1, i - 1>>]

pattern_anti_diagonal(layer) ==
    LET size == Len(layer.v)
    IN  [i \in 1..size |-> <<i - 1, size - 1 - (i - 1)>>]

\* The while loop of pattern_spiral, from (top, bottom, left, right) on.
RECURSIVE SpiralLoop(_, _, _, _)
SpiralLoop(top, bottom, left, right) ==
    IF top <= bottom /\ left <= right
    THEN LET cols1 == Range(left, right + 1)
             top1 == top + 1
             rows2 == Range(top1, bottom + 1)
             right1 == right - 1
             cols3 == IF top1 <= bottom THEN RangeDown(right1, left - 1) ELSE <<>>
             bottom1 == IF top1 <= bottom THEN bottom - 1 ELSE bottom
             rows4 == IF left <= right1 THEN RangeDown(bottom1, top1 - 1) ELSE <<>>
             left1 == IF left <= right1 THEN left + 1 ELSE left
         IN  [k \in 1..Len(cols1) |-> <<top, cols1[k]>>]
             \o [k \in 1..Len(rows2) |-> <<rows2[k], right>>]
             \o [k \in 1..Len(cols3) |-> <<bottom, cols3[k]>>]
             \o [k \in 1..Len(rows4) |-> <<rows4[k], left>>]
             \o SpiralLoop(top1, bottom1, left1, right1)
    ELSE <<>>

\* Mutant of pattern_spiral: the loop starts one column short on the right.
pattern_spiral_narrow(layer) ==
    LET size == Len(layer.v)
    IN  SpiralLoop(0, size - 1, 0, size - 2)

pattern_spiral(layer) ==
    LET size == Len(layer.v)
    IN  SpiralLoop(0, size - 1, 0, size - 1)

pattern_vertical_stripes(layer) ==
    LET size == Len(layer.v)
    IN  Chain([k \in 1..((size + 1) \div 2) |->
                 [r \in 1..size |-> <<r - 1, 2 * (k - 1)>>]])

pattern_horizontal_stripes(layer) ==
    LET size == Len(layer.v)
    IN  Chain([k \in 1..((size + 1) \div 2) |->
                 [c \in 1..size |-> <<2 * (k - 1), c - 1>>]])

\* registry._patterns after the module is imported: the decorated
\* functions in the order of their registration.
RegisteredPatterns ==
    <<"pattern_fill", "pattern_checkerboard_a", "pattern_checkerboard_b",
      "pattern_plus", "pattern_border", "pattern_diagonal",
      "pattern_anti_diagonal", "pattern_spiral", "pattern_vertical_stripes",
      "pattern_horizontal_stripes">>

PATTERN_COUNT == Len(RegisteredPatterns)

\* pattern(layer): the call of a registered function.
CallPattern(pattern, layer) ==
    CASE pattern = "pattern_fill" -> pattern_fill(layer)
      [] pattern = "pattern_checkerboard_a" -> pattern_checkerboard_a(layer)
      [] pattern = "pattern_checkerboard_b" -> pattern_checkerboard_b(layer)
      [] pattern = "pattern_plus" -> pattern_plus(layer)
      [] pattern = "pattern_border" -> pattern_border(layer)
      [] pattern = "pattern_diagonal" -> pattern_diagonal(layer)
      [] pattern = "pattern_anti_diagonal" -> pattern_anti_diagonal(layer)
      [] pattern = "pattern_spiral" -> pattern_spiral(layer)
      [] pattern = "pattern_vertical_stripes" -> pattern_vertical_stripes(layer)
      [] pattern = "pattern_horizontal_stripes" -> pattern_horizontal_stripes(layer)

\* PatternRegistry.get: an IndexError becomes the unknown-pattern ValueError.
RegistryGet(digit) ==
    LET got == ListIndex(RegisteredPatterns, digit)
    IN  IF got.error = "IndexError" THEN Raised("Unknown pattern index")
        ELSE got

\* A generator object: the coordinates it yields and how many it has yielded.
Generator(pattern, layer) ==
    [pattern |-> pattern, size |-> Len(layer.v),
     coords |-> CallPattern(pattern, layer), pos |-> 0]

\* Mutant of Coordinates: the generator another caller is iterating is handed
\* out again when it is one of the same pattern over a layer of the same size.
CoordinatesShared(digit, layer) ==
    LET pattern == RegistryGet(digit)
    IN  IF pattern.error # "none" THEN pattern
        ELSE IF live.pattern = pattern.value /\ live.size = Len(layer.v)
        THEN Value(live)
        ELSE Value(Generator(pattern.value, layer))

\* PatternRegistry.coordinates: a new generator over the layer.
Coordinates(digit, layer) ==
    LET pattern == RegistryGet(digit)
    IN  IF pattern.error # "none" THEN pattern
        ELSE Value(Generator(pattern.value, layer))

\* What a for loop over a generator receives: everything not yet yielded.
Drain(g) == SubSeq(g.coords, g.pos + 1, Len(g.coords))

(***************************************************************************)
(* shopot/keyfiles.py                                                      *)
(***************************************************************************)

LAYER_COUNT == 10
ELEMENT_LENGTH == 2

\* GRID_SIZE is 77 in the source; the model generates smaller layers.
GRID_SIZE == 3

\* string.ascii_letters + string.digits
CHARACTERS ==
    [i \in 1..26 |-> 96 + i] \o [i \in 1..26 |-> 64 + i] \o [i \in 1..10 |-> 47 + i]

\* rng.choice(CHARACTERS) at the k-th draw of random.Random(seed): the
\* generator is modelled by a fixed function of the seed and the draw number.
RngChoice(seed, k) ==
    CHARACTERS[(((seed + 1) * ((k * k) + (7 * k) + 13)) % Len(CHARACTERS)) + 1]

\* A KeyArray object.
KeyArray(layers) == [layers |-> layers]

\* KeyArray.generate(seed=seed)
Generate(seed) ==
    KeyArray(PyList(
        [l \in 1..LAYER_COUNT |-> PyList(
            [r \in 1..GRID_SIZE |-> PyList(
                [c \in 1..GRID_SIZE |-> PyStr(
                    [e \in 1..ELEMENT_LENGTH |->
                        RngChoice(seed,
                                  ((((l - 1) * GRID_SIZE + (r - 1)) * GRID_SIZE
                                    + (c - 1)) * ELEMENT_LENGTH) + (e - 1))])])])]))

\* Mutant of LayerOf: the layer after the one asked for.
LayerOfNext(key_array, index) ==
    ListIndex(key_array.layers.v, (index + 1) % LAYER_COUNT)

\* KeyArray.layer
LayerOf(key_array, index) == ListIndex(key_array.layers.v, index)

(***************************************************************************)
(* json.dumps and json.loads, as KeyArray.dump and KeyArray.load call      *)
(* them: default arguments, on texts given as sequences of code points.    *)
(* The values are the ones the key files of the model hold: str, int,      *)
(* list, None and the empty dict.                                          *)
(***************************************************************************)

\* The pieces, with sep between consecutive ones: sep.join(pieces).
RECURSIVE JoinWith(_, _)
JoinWith(sep, pieces) ==
    IF pieces = <<>> THEN <<>>
    ELSE IF Len(pieces) = 1 THEN pieces[1]
    ELSE pieces[1] \o sep \o JoinWith(sep, Tail(pieces))

\* One lowercase hexadecimal digit, and the four of a 16-bit number.
HexDigit(d) == IF d < 10 THEN 48 + d ELSE 87 + d
Hex4(n) ==
    <<HexDigit(n \div 4096), HexDigit((n \div 256) % 16),
      HexDigit((n \div 16) % 16), HexDigit(n % 16)>>

\* The escape \uXXXX
UEscape(n) == <<92, 117>> \o Hex4(n)

\* Mutant of EscapeAscii: every character is written as it is.
EscapeAsciiRaw(c) == <<c>>

\* What json.dumps writes for one character of a str (ensure_ascii=True):
\* \" \\ \n \r \t \b \f, printable ASCII as it is, \uXXXX for the rest of
\* the basic plane and a surrogate pair above it.
EscapeAscii(c) ==
    IF c = 34 THEN <<92, 34>>
    ELSE IF c = 92 THEN <<92, 92>>
    ELSE IF c = 10 THEN <<92, 110>>
    ELSE IF c = 13 THEN <<92, 114>>
    ELSE IF c = 9 THEN <<92, 116>>
    ELSE IF c = 8 THEN <<92, 98>>
    ELSE IF c = 12 THEN <<92, 102>>
    ELSE IF 32 <= c /\ c <= 126 THEN <<c>>
    ELSE IF c < 65536 THEN UEscape(c)
    ELSE LET n == c - 65536
         IN  UEscape(55296 + ((n \div 1024) % 1024)) \o UEscape(56320 + (n % 1024))

\* The decimal digits of a natural number, and int.__repr__.
RECURSIVE DecimalDigits(_)
DecimalDigits(n) ==
    IF n < 10 THEN <<48 + n>> ELSE DecimalDigits(n \div 10) \o <<48 + (n % 10)>>

IntRepr(n) == IF n < 0 THEN <<45>> \o DecimalDigits(-n) ELSE DecimalDigits(n)

\* json.dumps(x): items separated by ", ", a key from its value by ": ".
RECURSIVE JsonDumps(_)
JsonDumps(x) ==
    CASE x.t = "str" ->
            <<34>> \o Chain([i \in 1..Len(x.v) |-> EscapeAscii(x.v[i])]) \o <<34>>
      [] x.t = "int" -> IntRepr(x.v[1])
      [] x.t = "NoneType" -> <<110, 117, 108, 108>>
      [] x.t = "bool" -> IF x.v[1] = 1 THEN <<116, 114, 117, 101>>
                         ELSE <<102, 97, 108, 115, 101>>
      [] x.t = "dict" ->
            <<123>>
            \o JoinWith(<<44, 32>>,
                        [i \in 1..Len(x.v) |->
                           JsonDumps(PyStr(x.v[i].key)) \o <<58, 32>>
                           \o JsonDumps(x.v[i].value)])
            \o <<125>>
      [] x.t = "list" ->
            <<91>> \o JoinWith(<<44, 32>>, [i \in 1..Len(x.v) |-> JsonDumps(x.v[i])])
                   \o <<93>>

\* The result of scanning one JSON value: the value and the index after it.
Parsed(x, end) == [error |-> "none", value |-> x, end |-> end]
DecodeError == [error |-> "JSONDecodeError", value |-> PyNone, end |-> 0]

\* json.decoder.WHITESPACE: the index of the first character from i on that
\* is not a space, tab, line feed or carriage return.
RECURSIVE SkipWhitespace(_, _)
SkipWhitespace(s, i) ==
    IF i <= Len(s) /\ s[i] \in {32, 9, 10, 13} THEN SkipWhitespace(s, i + 1) ELSE i

\* The value of a hexadecimal digit, -1 for any other character.
HexValue(c) ==
    IF c \in 48..57 THEN c - 48
    ELSE IF c \in 97..102 THEN c - 87
    ELSE IF c \in 65..70 THEN c - 55
    ELSE -1

\* _decode_uXXXX: the number the four characters from pos on spell, -1 if
\* they are not four hexadecimal digits.
DecodeU(s, pos) ==
    IF pos + 3 > Len(s) THEN -1
    ELSE LET h == [k \in 1..4 |-> HexValue(s[pos + k - 1])]
         IN  IF \E k \in 1..4 : h[k] = -1 THEN -1
             ELSE (h[1] * 4096) + (h[2] * 256) + (h[3] * 16) + h[4]

\* json.decoder.BACKSLASH: the character an escape letter stands for, -1
\* for a letter that is no escape.
Unescaped(esc) ==
    IF esc \in {34, 92, 47} THEN esc
    ELSE IF esc = 98 THEN 8
    ELSE IF esc = 102 THEN 12
    ELSE IF esc = 110 THEN 10
    ELSE IF esc = 114 THEN 13
    ELSE IF esc = 116 THEN 9
    ELSE -1

\* The index of the first quote, backslash or control character from i on
\* (the end of a STRINGCHUNK), Len(s) + 1 when there is none; the text is
\* searched sixteen characters at a time.
RECURSIVE ChunkEnd(_, _)
ChunkEnd(s, i) ==
    IF i > Len(s) THEN Len(s) + 1
    ELSE LET last == IF i + 15 <= Len(s) THEN i + 15 ELSE Len(s)
             ends == {k \in i..last : s[k] = 34 \/ s[k] = 92 \/ s[k] < 32}
         IN  IF ends = {} THEN ChunkEnd(s, last + 1)
             ELSE CHOOSE k \in ends : \A m \in ends : k <= m

\* scanstring (strict): the str that ends at the next unescaped quote; i is
\* the index after the opening quote or after the last escape, and chars
\* what has been read so far.
RECURSIVE ScanString(_, _, _)
ScanString(s, i, chars) ==
    LET Paired(k, content, uni, uni2) ==
            IF uni2 = -1 THEN DecodeError
            ELSE IF 56320 <= uni2 /\ uni2 <= 57343
            THEN ScanString(s, k + 12,
                            Append(content,
                                   65536 + ((uni - 55296) * 1024) + (uni2 - 56320)))
            ELSE ScanString(s, k + 6, Append(content, uni))
        Escaped(k, content, uni) ==
            IF uni = -1 THEN DecodeError
            ELSE IF /\ 55296 <= uni /\ uni <= 56319
                    /\ k + 7 <= Len(s) /\ s[k + 6] = 92 /\ s[k + 7] = 117
            THEN Paired(k, content, uni, DecodeU(s, k + 8))
            ELSE ScanString(s, k + 6, Append(content, uni))
        Chunk(k, content) ==
            IF k > Len(s) THEN DecodeError
            ELSE IF s[k] = 34 THEN Parsed(PyStr(content), k + 1)
            ELSE IF s[k] # 92 THEN DecodeError
            ELSE IF k + 1 > Len(s) THEN DecodeError
            ELSE IF s[k + 1] # 117
            THEN IF Unescaped(s[k + 1]) = -1 THEN DecodeError
                 ELSE ScanString(s, k + 2, Append(content, Unescaped(s[k + 1])))
            ELSE Escaped(k, content, DecodeU(s, k + 2))
        Upto(k) == Chunk(k, chars \o SubSeq(s, i, k - 1))
    IN  Upto(ChunkEnd(s, i))

\* The digits from i on, added to the number n read so far.
RECURSIVE ScanDigits(_, _, _)
ScanDigits(s, i, n) ==
    IF i <= Len(s) /\ s[i] \in 48..57
    THEN ScanDigits(s, i + 1, (10 * n) + (s[i] - 48))
    ELSE [n |-> n, end |-> i]

\* NUMBER_RE, integer part: -?(0|[1-9][0-9]*).  No file of the model holds
\* a fraction or an exponent.
ScanNumber(s, i) ==
    LET negative == s[i] = 45
        j == IF negative THEN i + 1 ELSE i
    IN  IF j > Len(s) THEN DecodeError
        ELSE IF s[j] \notin 48..57 THEN DecodeError
        ELSE IF s[j] = 48 THEN Parsed(PyInt(0), j + 1)
        ELSE LET digits == ScanDigits(s, j, 0)
             IN  Parsed(PyInt(IF negative THEN -digits.n ELSE digits.n), digits.end)

\* scan_once: the JSON value that starts at index i.  JSONArray is the loop
\* ScanArrayItems and JSONObject the loop ScanObjectItems.
RECURSIVE ScanOnce(_, _)
RECURSIVE ScanArrayItems(_, _, _)
RECURSIVE ScanObjectItems(_, _, _)
ScanOnce(s, i) ==
    IF i > Len(s) THEN DecodeError
    ELSE IF s[i] = 34 THEN ScanString(s, i + 1, <<>>)
    ELSE IF s[i] = 123
    THEN LET j == SkipWhitespace(s, i + 1)
         IN  IF j <= Len(s) /\ s[j] = 125 THEN Parsed(PyEmptyDict, j + 1)
             ELSE ScanObjectItems(s, j, <<>>)
    ELSE IF s[i] = 91
    THEN LET j == SkipWhitespace(s, i + 1)
         IN  IF j <= Len(s) /\ s[j] = 93 THEN Parsed(PyList(<<>>), j + 1)
             ELSE ScanArrayItems(s, j, <<>>)
    ELSE IF s[i] = 110
    THEN IF i + 3 <= Len(s) /\ SubSeq(s, i, i + 3) = <<110, 117, 108, 108>>
         THEN Parsed(PyNone, i + 4)
         ELSE DecodeError
    ELSE IF s[i] = 116
    THEN IF i + 3 <= Len(s) /\ SubSeq(s, i, i + 3) = <<116, 114, 117, 101>>
         THEN Parsed(PyBool(TRUE), i + 4)
         ELSE DecodeError
    ELSE IF s[i] = 102
    THEN IF i + 4 <= Len(s) /\ SubSeq(s, i, i + 4) = <<102, 97, 108, 115, 101>>
         THEN Parsed(PyBool(FALSE), i + 5)
         ELSE DecodeError
    ELSE IF s[i] = 45 \/ s[i] \in 48..57 THEN ScanNumber(s, i)
    ELSE DecodeError

\* The loop of JSONArray: an item, then "]" or "," and the next item.
ScanArrayItems(s, i, values) ==
    LET AfterSpace(item, j) ==
            IF j > Len(s) THEN DecodeError
            ELSE IF s[j] = 93 THEN Parsed(PyList(Append(values, item.value)), j + 1)
            ELSE IF s[j] # 44 THEN DecodeError
            ELSE ScanArrayItems(s, SkipWhitespace(s, j + 1), Append(values, item.value))
        AfterItem(item) ==
            IF item.error # "none" THEN DecodeError
            ELSE AfterSpace(item, SkipWhitespace(s, item.end))
    IN  AfterItem(ScanOnce(s, i))

\* The loop of JSONObject: a key in quotes, ":", a value, then "}" or ","
\* and the next key.
ScanObjectItems(s, i, pairs) ==
    LET AfterPair(all, j) ==
            IF j > Len(s) THEN DecodeError
            ELSE IF s[j] = 125 THEN Parsed(DictOf(all, <<>>), j + 1)
            ELSE IF s[j] # 44 THEN DecodeError
            ELSE ScanObjectItems(s, SkipWhitespace(s, j + 1), all)
        AfterItem(key, item) ==
            IF item.error # "none" THEN DecodeError
            ELSE AfterPair(Append(pairs, [key |-> key.value.v, value |-> item.value]),
                           SkipWhitespace(s, item.end))
        AfterColon(key, colon) ==
            IF colon > Len(s) THEN DecodeError
            ELSE IF s[colon] # 58 THEN DecodeError
            ELSE AfterItem(key, ScanOnce(s, SkipWhitespace(s, colon + 1)))
        AfterKey(key) ==
            IF key.error # "none" THEN DecodeError
            ELSE AfterColon(key, SkipWhitespace(s, key.end))
    IN  IF i > Len(s) THEN DecodeError
        ELSE IF s[i] # 34 THEN DecodeError
        ELSE AfterKey(ScanString(s, i + 1, <<>>))

\* json.loads(s): one value, with nothing but whitespace around it.
JsonLoads(s) ==
    LET AfterValue(r) ==
            IF r.error # "none" THEN Raised("JSONDecodeError")
            ELSE IF SkipWhitespace(s, r.end) # Len(s) + 1 THEN Raised("JSONDecodeError")
            ELSE Value(r.value)
    IN  AfterValue(ScanOnce(s, SkipWhitespace(s, 1)))

\* a == b on two Python values
RECURSIVE PyEq(_, _)
PyEq(a, b) ==
    /\ a.t = b.t
    /\ Len(a.v) = Len(b.v)
    /\ IF a.t = "list" THEN \A i \in 1..Len(a.v) : PyEq(a.v[i], b.v[i])
       ELSE IF a.t = "dict"
       THEN \A i \in 1..Len(a.v) :
              /\ DictHas(b, a.v[i].key)
              /\ PyEq(a.v[i].value, DictItem(b, a.v[i].key))
       ELSE a.v = b.v

\* Mutant of KeyArrayLoad: the length of the list is not looked at.
KeyArrayLoadAnyLength(text) ==
    LET Checked(data) ==
            IF data.error # "none"
            THEN [error |-> data.error, key_array |-> KeyArray(PyNone)]
            ELSE IF data.value.t # "list"
            THEN [error |-> "Invalid key file: unexpected structure",
                  key_array |-> KeyArray(PyNone)]
            ELSE [error |-> "none", key_array |-> KeyArray(data.value)]
    IN  Checked(JsonLoads(text))

\* KeyArray.load, on the text of the file: the exception raised and the
\* KeyArray constructed (none when it raises).
KeyArrayLoad(text) ==
    LET Checked(data) ==
            IF data.error # "none"
            THEN [error |-> data.error, key_array |-> KeyArray(PyNone)]
            ELSE IF data.value.t # "list" \/ Len(data.value.v) # LAYER_COUNT
            THEN [error |-> "Invalid key file: unexpected structure",
                  key_array |-> KeyArray(PyNone)]
            ELSE [error |-> "none", key_array |-> KeyArray(data.value)]
    IN  Checked(JsonLoads(text))

\* KeyArray.dump: the text written to the file.
KeyArrayDump(key_array) == JsonDumps(key_array.layers)

(***************************************************************************)
(* base64.b64encode and base64.b64decode, as to_dict and from_dict call    *)
(* them; str.decode("utf-8") as ShopotDocument reads a plaintext.          *)
(***************************************************************************)

\* The character of a 6-bit value in the standard alphabet.
B64Char(v) ==
    IF v < 26 THEN 65 + v
    ELSE IF v < 52 THEN 97 + (v - 26)
    ELSE IF v < 62 THEN 48 + (v - 52)
    ELSE IF v = 62 THEN 43
    ELSE 47

\* The 6-bit value of a character, -1 for a character outside the alphabet.
B64Value(c) ==
    IF c \in 65..90 THEN c - 65
    ELSE IF c \in 97..122 THEN (c - 97) + 26
    ELSE IF c \in 48..57 THEN (c - 48) + 52
    ELSE IF c = 43 THEN 62
    ELSE IF c = 47 THEN 63
    ELSE -1

\* base64.b64encode(data).decode("ascii"), from byte i on: three bytes give
\* four characters, a last group of one or two bytes is padded with "=".
RECURSIVE B64EncodeFrom(_, _)
B64EncodeFrom(data, i) ==
    LET left == Len(data) - i + 1
    IN  IF left <= 0 THEN <<>>
        ELSE IF left = 1
        THEN <<B64Char(data[i] \div 4), B64Char((data[i] % 4) * 16), 61, 61>>
        ELSE IF left = 2
        THEN <<B64Char(data[i] \div 4),
               B64Char(((data[i] % 4) * 16) + (data[i + 1] \div 16)),
               B64Char((data[i + 1] % 16) * 4), 61>>
        ELSE <<B64Char(data[i] \div 4),
               B64Char(((data[i] % 4) * 16) + (data[i + 1] \div 16)),
               B64Char(((data[i + 1] % 16) * 4) + (data[i + 2] \div 64)),
               B64Char(data[i + 2] % 64)>>
             \o B64EncodeFrom(data, i + 3)

B64Encode(data) == B64EncodeFrom(data, 1)

\* binascii.a2b_base64 (not strict).  The loop reads the characters in
\* order, skips those outside the alphabet, and stops at an "=" that
\* completes a group of four begun with two or three data characters (for
\* two: the second "=" since the last data character).  What it has written
\* when it stops, or at the end of a text whose data characters make whole
\* groups, is the result; a text that ends inside a group is an error.
A2bBase64(s) ==
    LET IsData(i) == B64Value(s[i]) # -1
        DataBefore(i) == Cardinality({k \in 1..(i - 1) : IsData(k)})
        PadsUpTo(i) ==
            Cardinality({k \in 1..i :
                           /\ s[k] = 61
                           /\ \A d \in (k + 1)..(i - 1) : ~IsData(d)})
        Stops(i) ==
            /\ s[i] = 61
            /\ DataBefore(i) % 4 >= 2
            /\ (DataBefore(i) % 4) + PadsUpTo(i) >= 4
        stops == {i \in 1..Len(s) : Stops(i)}
        end == IF stops = {} THEN Len(s) + 1
               ELSE CHOOSE i \in stops : \A k \in stops : i <= k
        values == SelectSeq([i \in 1..(end - 1) |-> B64Value(s[i])],
                            LAMBDA v : v # -1)
        n == Len(values)
        written == ((n \div 4) * 3) + (IF n % 4 >= 2 THEN (n % 4) - 1 ELSE 0)
        ByteAt(j) ==
            LET a == values[(4 * ((j - 1) \div 3)) + ((j - 1) % 3) + 1]
                b == values[(4 * ((j - 1) \div 3)) + ((j - 1) % 3) + 2]
            IN  IF (j - 1) % 3 = 0 THEN (a * 4) + (b \div 16)
                ELSE IF (j - 1) % 3 = 1 THEN ((a % 16) * 16) + (b \div 4)
                ELSE ((a % 4) * 64) + b
    IN  IF stops = {} /\ n % 4 # 0 THEN [error |-> "binascii.Error", bytes |-> <<>>]
        ELSE [error |-> "none", bytes |-> [j \in 1..written |-> ByteAt(j)]]

\* base64.b64decode(x) of a Python value: TypeError unless it is a str,
\* ValueError for a str with a character beyond ASCII, binascii.Error for a
\* group left incomplete.
B64Decode(x) ==
    IF x.t # "str" THEN [error |-> "TypeError", bytes |-> <<>>]
    ELSE IF \E i \in 1..Len(x.v) : x.v[i] > 127
    THEN [error |-> "ValueError: string argument should contain only ASCII characters",
          bytes |-> <<>>]
    ELSE A2bBase64(x.v)

\* The code point and the length of the UTF-8 sequence that starts at byte
\* i, or length 0 when the bytes there are not a valid sequence.
Utf8SequenceAt(b, i) ==
    LET b0 == b[i]
        Byte(k) == IF i + k <= Len(b) THEN b[i + k] ELSE 0
        Cont(k) == Byte(k) \in 128..191
        invalid == [length |-> 0, code |-> 0]
    IN  IF b0 < 128 THEN [length |-> 1, code |-> b0]
        ELSE IF b0 \in 194..223
        THEN IF Cont(1) THEN [length |-> 2, code |-> ((b0 - 192) * 64) + (Byte(1) - 128)]
             ELSE invalid
        ELSE IF b0 \in 224..239
        THEN IF /\ Cont(1) /\ Cont(2)
                /\ (b0 = 224 => Byte(1) >= 160)
                /\ (b0 = 237 => Byte(1) <= 159)
             THEN [length |-> 3,
                   code |-> ((b0 - 224) * 4096) + ((Byte(1) - 128) * 64) + (Byte(2) - 128)]
             ELSE invalid
        ELSE IF b0 \in 240..244
        THEN IF /\ Cont(1) /\ Cont(2) /\ Cont(3)
                /\ (b0 = 240 => Byte(1) >= 144)
                /\ (b0 = 244 => Byte(1) <= 143)
             THEN [length |-> 4,
                   code |-> ((b0 - 240) * 262144) + ((Byte(1) - 128) * 4096)
                            + ((Byte(2) - 128) * 64) + (Byte(3) - 128)]
             ELSE invalid
        ELSE invalid

\* bytes.decode("utf-8") from byte i on, chars being the text decoded so far.
RECURSIVE Utf8DecodeFrom(_, _, _)
Utf8DecodeFrom(b, i, chars) ==
    IF i > Len(b) THEN [error |-> "none", text |-> chars]
    ELSE LET seq == Utf8SequenceAt(b, i)
         IN  IF seq.length = 0 THEN [error |-> "UnicodeDecodeError", text |-> <<>>]
             ELSE Utf8DecodeFrom(b, i + seq.length, Append(chars, seq.code))

Utf8Decode(b) == Utf8DecodeFrom(b, 1, <<>>)

(***************************************************************************)
(* The payload classes' to_dict / from_dict (shopot/crypto.py) and         *)
(* shopot/document.py                                                      *)
(***************************************************************************)

\* The keys "salt", "nonce", "ciphertext", "mac", "version" and "payload".
KeySalt == <<115, 97, 108, 116>>
KeyNonce == <<110, 111, 110, 99, 101>>
KeyCiphertext == <<99, 105, 112, 104, 101, 114, 116, 101, 120, 116>>
KeyMac == <<109, 97, 99>>
KeyVersion == <<118, 101, 114, 115, 105, 111, 110>>
KeyPayload == <<112, 97, 121, 108, 111, 97, 100>>

\* EncryptedPayload.to_dict
ToDict(p) ==
    PyDict(<<[key |-> KeySalt, value |-> PyStr(B64Encode(p.salt))],
             [key |-> KeyNonce, value |-> PyStr(B64Encode(p.nonce))],
             [key |-> KeyCiphertext, value |-> PyStr(B64Encode(p.ciphertext))],
             [key |-> KeyMac, value |-> PyStr(B64Encode(p.mac))]>>)

\* LegacyEncryptedPayload.to_dict
LegacyToDict(p) ==
    PyDict(<<[key |-> KeySalt, value |-> PyStr(B64Encode(p.salt))],
             [key |-> KeyCiphertext, value |-> PyStr(B64Encode(p.ciphertext))]>>)

\* data[key]: KeyError when a dict lacks the key, TypeError when data is
\* not a dict (a str or a list wants an integer, the rest have no items).
Subscript(data, key) ==
    IF data.t # "dict" THEN Raised("TypeError")
    ELSE IF ~DictHas(data, key) THEN Raised("KeyError")
    ELSE Value(DictItem(data, key))

\* base64.b64decode(data[key]): the bytes, or the first error raised.
DecodedField(data, key) ==
    LET Of(item) ==
            IF item.error # "none" THEN [error |-> item.error, bytes |-> <<>>]
            ELSE B64Decode(item.value)
    IN  Of(Subscript(data, key))

\* The first error among the results of the fields, in their order.
FirstError(fields) ==
    IF \A i \in 1..Len(fields) : fields[i].error = "none" THEN "none"
    ELSE fields[CHOOSE i \in 1..Len(fields) :
                   /\ fields[i].error # "none"
                   /\ \A k \in 1..(i - 1) : fields[k].error = "none"].error

\* EncryptedPayload.from_dict: salt, nonce, ciphertext and mac in this order.
FromDict(data) ==
    LET Built(salt, nonce, ciphertext, mac, error) ==
            IF error # "none" THEN [error |-> error, payload |-> [class |-> "none"]]
            ELSE [error |-> "none",
                  payload |-> [class |-> "EncryptedPayload", salt |-> salt.bytes,
                               nonce |-> nonce.bytes, ciphertext |-> ciphertext.bytes,
                               mac |-> mac.bytes]]
        Fields(salt, nonce, ciphertext, mac) ==
            Built(salt, nonce, ciphertext, mac,
                  FirstError(<<salt, nonce, ciphertext, mac>>))
    IN  Fields(DecodedField(data, KeySalt), DecodedField(data, KeyNonce),
               DecodedField(data, KeyCiphertext), DecodedField(data, KeyMac))

\* LegacyEncryptedPayload.from_dict: salt, then ciphertext.
LegacyFromDict(data) ==
    LET Built(salt, ciphertext, error) ==
            IF error # "none" THEN [error |-> error, payload |-> [class |-> "none"]]
            ELSE [error |-> "none",
                  payload |-> [class |-> "LegacyEncryptedPayload", salt |-> salt.bytes,
                               ciphertext |-> ciphertext.bytes]]
        Fields(salt, ciphertext) ==
            Built(salt, ciphertext, FirstError(<<salt, ciphertext>>))
    IN  Fields(DecodedField(data, KeySalt), DecodedField(data, KeyCiphertext))

\* No cipher function was called.
NoResult == Result("none", <<>>, 0, <<>>)

\* The result of a ShopotDocument call: the error raised (or "none"), the
\* text of the document returned, the file text written, the payload and
\* cipher functions called, in order, and the result of the cipher function.
DocumentResult(error, text, written, steps, crypto) ==
    [error |-> error, text |-> text, written |-> written, steps |-> steps,
     crypto |-> crypto]

\* Mutant of DocumentSave: the envelope is tagged with the previous generation.
DocumentSaveTaggedV2(text, key_material, salt, nonce) ==
    LET Envelope2(r) ==
            PyDict(<<[key |-> KeyVersion, value |-> PyInt(2)],
                     [key |-> KeyPayload, value |-> ToDict(r.data)]>>)
        Written(r) ==
            IF r.status # "ok" THEN DocumentResult(r.status, <<>>, <<>>, <<"encrypt">>, r)
            ELSE DocumentResult("none", <<>>, JsonDumps(Envelope2(r)),
                                <<"encrypt", "EncryptedPayload.to_dict">>, r)
    IN  Written(EncryptFn(Utf8Encode(text), key_material, salt, nonce))

\* ShopotDocument.save, with the salt and nonce os.urandom returns: nothing
\* is written when encrypt raises.
DocumentSave(text, key_material, salt, nonce) ==
    LET Envelope3(r) ==
            PyDict(<<[key |-> KeyVersion, value |-> PyInt(3)],
                     [key |-> KeyPayload, value |-> ToDict(r.data)]>>)
        Written(r) ==
            IF r.status # "ok" THEN DocumentResult(r.status, <<>>, <<>>, <<"encrypt">>, r)
            ELSE DocumentResult("none", <<>>, JsonDumps(Envelope3(r)),
                                <<"encrypt", "EncryptedPayload.to_dict">>, r)
    IN  Written(EncryptFn(Utf8Encode(text), key_material, salt, nonce))

\* version == n, for the version a document holds: an int is compared by
\* value and True, False are the numbers 1, 0.
VersionEquals(version, n) == version.t \in {"int", "bool"} /\ version.v[1] = n

\* Mutant of VersionOf: a document without a tag is taken for the current one.
VersionOfDefaultCurrent(data) ==
    IF DictHas(data, KeyVersion) THEN DictItem(data, KeyVersion) ELSE PyInt(3)

\* data.get("version", 1)
VersionOf(data) ==
    IF DictHas(data, KeyVersion) THEN DictItem(data, KeyVersion) ELSE PyInt(1)

\* cls(text=plaintext.decode("utf-8")) after a cipher function returned r.
Decoded(steps, r) ==
    LET Text(decoded) == DocumentResult(decoded.error, decoded.text, <<>>, steps, r)
    IN  IF r.status # "ok" THEN DocumentResult(r.status, <<>>, <<>>, steps, r)
        ELSE Text(Utf8Decode(r.data))

\* ShopotDocument.load, on the text of the file.
DocumentLoad(file, key_material) ==
    LET Legacy(p) ==
            IF p.error # "none"
            THEN DocumentResult(p.error, <<>>, <<>>,
                                <<"LegacyEncryptedPayload.from_dict">>, NoResult)
            ELSE Decoded(<<"LegacyEncryptedPayload.from_dict", "decrypt_legacy">>,
                         DecryptLegacyFn(p.payload, key_material))
        V2(p) ==
            IF p.error # "none"
            THEN DocumentResult(p.error, <<>>, <<>>, <<"EncryptedPayload.from_dict">>,
                                NoResult)
            ELSE Decoded(<<"EncryptedPayload.from_dict", "decrypt_v2">>,
                         DecryptV2Fn(p.payload, key_material))
        V3(p) ==
            IF p.error # "none"
            THEN DocumentResult(p.error, <<>>, <<>>, <<"EncryptedPayload.from_dict">>,
                                NoResult)
            ELSE Decoded(<<"EncryptedPayload.from_dict", "decrypt">>,
                         DecryptFn(p.payload, key_material))
        Dispatch(version, payload_data) ==
            IF payload_data.error # "none"
            THEN DocumentResult(payload_data.error, <<>>, <<>>, <<>>, NoResult)
            ELSE IF VersionEquals(version, 1) THEN Legacy(LegacyFromDict(payload_data.value))
            ELSE IF VersionEquals(version, 2) THEN V2(FromDict(payload_data.value))
            ELSE IF VersionEquals(version, 3) THEN V3(FromDict(payload_data.value))
            ELSE DocumentResult("Unsupported Shopot document version", <<>>, <<>>,
                                <<>>, NoResult)
        Read(parsed) ==
            IF parsed.error # "none"
            THEN DocumentResult(parsed.error, <<>>, <<>>, <<>>, NoResult)
            ELSE IF parsed.value.t # "dict"
            THEN DocumentResult("AttributeError", <<>>, <<>>, <<>>, NoResult)
            ELSE Dispatch(VersionOf(parsed.value), Subscript(parsed.value, KeyPayload))
    IN  Read(JsonLoads(file))

(***************************************************************************)
(* shopot/passwords.py                                                     *)
(***************************************************************************)

\* str.isdigit() of one character, for the characters of the model: ASCII
\* digits, the superscript digits 1, 2, 3 and the Arabic-Indic digits.
IsDigitChar(c) == c \in (48..57) \cup {178, 179, 185} \cup (1632..1641)

\* str.isdigit(): every character is a digit and there is at least one.
IsDigit(s) == s # <<>> /\ \A i \in 1..Len(s) : IsDigitChar(s[i])

\* int(c) of a one-character string: decimal digits of any script convert,
\* every other character raises ValueError.
IntOfChar(c) ==
    IF c \in 48..57 THEN [error |-> "none", value |-> c - 48]
    ELSE IF c \in 1632..1641 THEN [error |-> "none", value |-> c - 1632]
    ELSE [error |-> "invalid literal for int() with base 10", value |-> -1]

\* The for loop of validate_password, from character i on.
RECURSIVE ValidateDigitsFrom(_, _)
ValidateDigitsFrom(password, i) ==
    IF i > Len(password) THEN "ok"
    ELSE LET n == IntOfChar(password[i])
         IN  IF n.error # "none" THEN n.error
             ELSE IF n.value >= PATTERN_COUNT
             THEN "Digit is not associated with a pattern"
             ELSE ValidateDigitsFrom(password, i + 1)

\* validate_password: "ok", or the message of the ValueError raised.
ValidatePassword(password) ==
    IF Len(password) # LAYER_COUNT THEN "Password must be exactly 10 digits long"
    ELSE IF ~IsDigit(password) THEN "Password must contain digits only"
    ELSE ValidateDigitsFrom(password, 1)

\* "".join(strs)
Join(strs) == Chain([i \in 1..Len(strs) |-> strs[i].v])

\* _collect_elements: layer[row][col] for every coordinate the generator yields.
CollectElements(pattern_index, layer) ==
    LET coords == Drain(Coordinates(pattern_index, layer).value)
    IN  [k \in 1..Len(coords) |->
            ListIndex(ListIndex(layer.v, coords[k][1]).value.v, coords[k][2]).value]

\* The for loop of password_to_key_material, from layer_index on.
RECURSIVE FragmentsFrom(_, _, _)
FragmentsFrom(password, key_array, layer_index) ==
    IF layer_index >= Len(password) THEN <<>>
    ELSE LET char == password[layer_index + 1]
             pattern_index == IntOfChar(char).value
             layer == LayerOf(key_array, layer_index).value
             selected_elements == CollectElements(pattern_index, layer)
         IN  <<PyStr(Join(selected_elements))>>
             \o FragmentsFrom(password, key_array, layer_index + 1)

\* password_to_key_material: the key material, or the validation error.
PasswordToKeyMaterial(password, key_array) ==
    LET v == ValidatePassword(password)
    IN  IF v # "ok" THEN [status |-> v, material |-> <<>>]
        ELSE [status |-> "ok",
              material |-> Join(FragmentsFrom(password, key_array, 0))]

(***************************************************************************)
(* The cipher engine as a state machine: a payload is produced by one of   *)
(* the three encrypt functions, possibly altered in one byte while stored, *)
(* and handed to a decrypt function.                                       *)
(***************************************************************************)

MaxPlainLen == 2

PlainBytes == {104, 255}

Plaintexts == UNION {[1..n -> PlainBytes] : n \in 0..MaxPlainLen}

\* "", "k" and "Aé"
KeyMaterials == {<<>>, <<107>>, <<65, 233>>}

\* Values os.urandom(SALT_SIZE) and os.urandom(NONCE_SIZE) may return.
SaltChoices == {[i \in 1..SALT_SIZE |-> 0], [i \in 1..SALT_SIZE |-> (17 * i) % 256]}
NonceChoices == {[i \in 1..NONCE_SIZE |-> 255], [i \in 1..NONCE_SIZE |-> (5 * i) % 256]}

\* The bit patterns a stored byte may be changed by.
TamperMasks == {1}

NoPayload == [class |-> "none"]
NoOutcome == [op |-> "none", status |-> "none", data |-> <<>>, blocks |-> 0,
              steps |-> <<>>, key |-> <<>>]

EncryptOps == {"encrypt_legacy", "encrypt_v2", "encrypt"}
DecryptOps == {"decrypt_legacy", "decrypt_v2", "decrypt"}

Outcome(op, key, r) ==
    [op |-> op, status |-> r.status,
     data |-> IF op \in EncryptOps THEN <<>> ELSE r.data,
     blocks |-> r.blocks, steps |-> r.steps, key |-> key]

\* What a crypto call leaves alone.
otherThanCrypto == <<current_key_array, deriveVars, keyVars, query, docVars, wireVars, streamCall,
      guiVars>>

\* A successful encrypt produces the payload; a failed one produces none.
\* Each behaviour follows one payload, from its encryption on.
Encrypted(op, g, plaintext, key_material, r) ==
    /\ payload = NoPayload
    /\ outcome' = Outcome(op, key_material, r)
    /\ IF r.status = "ok"
       THEN /\ payload' = r.data
            /\ gen' = g
            /\ plain' = plaintext
            /\ keyUsed' = key_material
            /\ tampered' = "none"
       ELSE UNCHANGED <<payload, gen, plain, keyUsed, tampered>>
    /\ UNCHANGED otherThanCrypto

EncryptLegacy ==
    \E plaintext \in Plaintexts, key_material \in KeyMaterials, salt \in SaltChoices :
        Encrypted("encrypt_legacy", 1, plaintext, key_material,
                  EncryptLegacyFn(plaintext, key_material, salt))

EncryptV2 ==
    \E plaintext \in Plaintexts, key_material \in KeyMaterials,
       salt \in SaltChoices, nonce \in NonceChoices :
        Encrypted("encrypt_v2", 2, plaintext, key_material,
                  EncryptV2Fn(plaintext, key_material, salt, nonce))

Encrypt ==
    \E plaintext \in Plaintexts, key_material \in KeyMaterials,
       salt \in SaltChoices, nonce \in NonceChoices :
        Encrypted("encrypt", 3, plaintext, key_material,
                  EncryptFn(plaintext, key_material, salt, nonce))

\* One byte of one field of the stored payload is changed.
TamperFields ==
    IF payload.class = "EncryptedPayload" THEN {"salt", "nonce", "ciphertext", "mac"}
    ELSE IF payload.class = "LegacyEncryptedPayload" THEN {"salt", "ciphertext"}
    ELSE {}

WithByteChanged(p, f, i, mask) ==
    CASE f = "salt" -> [p EXCEPT !.salt[i] = Xor(@, mask)]
      [] f = "nonce" -> [p EXCEPT !.nonce[i] = Xor(@, mask)]
      [] f = "ciphertext" -> [p EXCEPT !.ciphertext[i] = Xor(@, mask)]
      [] f = "mac" -> [p EXCEPT !.mac[i] = Xor(@, mask)]

Tamper ==
    /\ tampered = "none"
    /\ outcome.op \in EncryptOps
    /\ \E f \in TamperFields :
         \E i \in 1..Len(payload[f]), mask \in TamperMasks :
            /\ payload' = WithByteChanged(payload, f, i, mask)
            /\ tampered' = f
    /\ outcome' = [NoOutcome EXCEPT !.op = "tamper"]
    /\ UNCHANGED <<gen, plain, keyUsed>>
    /\ UNCHANGED otherThanCrypto

\* A payload is handed to the decrypt function of the generation that made it.
DecryptLegacy ==
    /\ payload.class = "LegacyEncryptedPayload"
    /\ gen = 1
    /\ outcome.op \notin DecryptOps
    /\ \E key_material \in KeyMaterials :
         outcome' = Outcome("decrypt_legacy", key_material,
                            DecryptLegacyFn(payload, key_material))
    /\ UNCHANGED <<payload, gen, plain, keyUsed, tampered>>
    /\ UNCHANGED otherThanCrypto

DecryptV2 ==
    /\ payload.class = "EncryptedPayload"
    /\ gen = 2
    /\ outcome.op \notin DecryptOps
    /\ \E key_material \in KeyMaterials :
         outcome' = Outcome("decrypt_v2", key_material,
                            DecryptV2Fn(payload, key_material))
    /\ UNCHANGED <<payload, gen, plain, keyUsed, tampered>>
    /\ UNCHANGED otherThanCrypto

Decrypt ==
    /\ payload.class = "EncryptedPayload"
    /\ gen = 3
    /\ outcome.op \notin DecryptOps
    /\ \E key_material \in KeyMaterials :
         outcome' = Outcome("decrypt", key_material, DecryptFn(payload, key_material))
    /\ UNCHANGED <<payload, gen, plain, keyUsed, tampered>>
    /\ UNCHANGED otherThanCrypto

CryptoNext ==
    \/ EncryptLegacy
    \/ EncryptV2
    \/ Encrypt
    \/ Tamper
    \/ DecryptLegacy
    \/ DecryptV2
    \/ Decrypt

(***************************************************************************)
(* Key derivation as a state machine: over one key array, passwords are    *)
(* validated and key material is derivation, while some other caller iterates *)
(* a pattern generator of its own.                                         *)
(***************************************************************************)

NoKeyArray == KeyArray(PyNone)
NoCall == [op |-> "none", password |-> <<>>, status |-> "none", material |-> <<>>,
           mid_iteration |-> FALSE, encrypted |-> FALSE]
NoGenerator == [pattern |-> "none", size |-> 0, coords |-> <<>>, pos |-> 0]

\* The key array a well-formed key file of n x n layers holds; every cell
\* differs from every other.
GridArray(n) ==
    KeyArray(PyList(
        [l \in 1..LAYER_COUNT |-> PyList(
            [r \in 1..n |-> PyList(
                [c \in 1..n |-> PyStr(<<64 + l, 48 + ((r - 1) * n) + c>>)])])]))

DeriveKeyArrays == {Generate(42), GridArray(1), GridArray(2)}

\* The password whose i-th digit (from 0) is (a + b * i) mod 10, written with
\* the digits that start at code point zero.
DigitPassword(zero, a, b) == [i \in 1..LAYER_COUNT |-> zero + ((a + (b * (i - 1))) % 10)]

\* "0123456789", "9876543210", the Arabic-Indic digits 0..9,
\* "012345678" + superscript two, "01234abcde", "012", "01234567890" and
\* three Arabic-Indic digits.
Passwords ==
    {DigitPassword(48, 0, 1), DigitPassword(48, 9, 9),
     DigitPassword(1632, 0, 1),
     [DigitPassword(48, 0, 1) EXCEPT ![10] = 178],
     [i \in 1..10 |-> IF i <= 5 THEN 47 + i ELSE 91 + i],
     <<48, 49, 50>>,
     DigitPassword(48, 0, 1) \o <<48>>,
     <<1632, 1633, 1634>>}

\* Whether the other caller's generator has yielded some, not all, coordinates.
MidIteration == 0 < live.pos /\ live.pos < Len(live.coords)

\* The record of a call; a derivation also notes what had run before it.
Call(op, password, status, material) ==
    [op |-> op, password |-> password, status |-> status, material |-> material,
     mid_iteration |-> op = "password_to_key_material" /\ MidIteration,
     encrypted |-> op = "password_to_key_material" /\ payload # NoPayload]

\* What a derivation call leaves alone.
otherThanDerive == <<cryptoVars, current_key_array, keyVars, query, docVars, wireVars, streamCall,
      guiVars>>

Validate ==
    /\ \E password \in Passwords :
         derivation' = Call("validate_password", password,
                         ValidatePassword(password), <<>>)
    /\ UNCHANGED <<remembered, live>>
    /\ UNCHANGED otherThanDerive

Derive ==
    /\ \E password \in Passwords :
         LET r == PasswordToKeyMaterial(password, current_key_array)
         IN  derivation' = Call("password_to_key_material", password,
                             r.status, r.material)
    /\ remembered' = IF remembered.op = "none" /\ derivation'.status = "ok"
                     THEN derivation' ELSE remembered
    /\ UNCHANGED live
    /\ UNCHANGED otherThanDerive

\* Another caller asks the registry for a generator over the first layer.
OpenGenerator ==
    /\ \E digit \in {0} :
         live' = Coordinates(digit, LayerOf(current_key_array, 0).value).value
    /\ UNCHANGED <<derivation, remembered>>
    /\ UNCHANGED otherThanDerive

\* next() on that generator.
NextCoordinate ==
    /\ live.pos < Len(live.coords)
    /\ live' = [live EXCEPT !.pos = @ + 1]
    /\ UNCHANGED <<derivation, remembered>>
    /\ UNCHANGED otherThanDerive

\* The text "h" is encrypted (v3) under the key material last derived.
EncryptDerived ==
    /\ derivation.op = "password_to_key_material"
    /\ derivation.status = "ok"
    /\ \E salt \in {[i \in 1..SALT_SIZE |-> 0]}, nonce \in {[i \in 1..NONCE_SIZE |-> 255]} :
         Encrypted("encrypt", 3, <<104>>, derivation.material,
                   EncryptFn(<<104>>, derivation.material, salt, nonce))

DeriveNext ==
    \/ Validate
    \/ Derive
    \/ OpenGenerator
    \/ NextCoordinate
    \/ EncryptDerived

(***************************************************************************)
(* The key store: a key array is generated, dumped to the key file and     *)
(* loaded from it; the file may also come from elsewhere.                  *)
(***************************************************************************)

\* No file at the path, and no load made yet.
NoFile == <<0>>
NoLoad ==
    [op |-> "none", data |-> Raised("none"), error |-> "none",
     key_array |-> NoKeyArray, of |-> NoKeyArray]

\* random.Random(seed) of KeyArray.generate
Seeds == {7, 42}

\* What a character of a str looks like in a file another program wrote:
\* only the quote, the backslash, the slash, the control characters and the
\* lone surrogates are escaped, every other character stands for itself.
EscapeMinimal(c) ==
    IF c \in {34, 92, 47} THEN <<92, c>>
    ELSE IF c < 32 \/ c \in 55296..57343 THEN UEscape(c)
    ELSE <<c>>

\* The JSON text another program writes for a value: one item per line.
RECURSIVE WrittenElsewhere(_)
WrittenElsewhere(x) ==
    CASE x.t = "str" ->
            <<34>> \o Chain([i \in 1..Len(x.v) |-> EscapeMinimal(x.v[i])]) \o <<34>>
      [] x.t = "int" -> IntRepr(x.v[1])
      [] x.t = "NoneType" -> <<110, 117, 108, 108>>
      [] x.t = "dict" -> <<123, 32, 125>>
      [] x.t = "list" ->
            <<91, 10>>
            \o JoinWith(<<44, 10, 32>>, [i \in 1..Len(x.v) |-> WrittenElsewhere(x.v[i])])
            \o <<10, 93>>

\* Cells with a quote and a backslash, control characters, a slash and DEL,
\* accented letters, a character beyond the basic plane, and no character.
SpecialCells ==
    <<<<34, 92, 34>>, <<10, 9, 0>>, <<47, 127>>, <<233, 8364>>, <<128512, 97>>,
      <<>>, <<92, 117, 48, 48, 52, 49>>, <<32, 39>>, <<55357>>, <<122, 90>>>>

\* A well-formed array of 1 x 1 layers whose cells are the special ones.
SpecialLayers ==
    PyList([l \in 1..LAYER_COUNT |-> PyList(<<PyList(<<PyStr(SpecialCells[l])>>)>>)])

\* Ten integers where the layers should be.
TenIntegers == PyList([l \in 1..LAYER_COUNT |-> PyInt(l - 4)])

\* Ten layers of which the first has a str for a row, the second an int and
\* None for cells and the third is an empty dict.
MisshapenLayers ==
    PyList([l \in 1..LAYER_COUNT |->
              IF l = 1 THEN PyList(<<PyStr(<<97, 98>>)>>)
              ELSE IF l = 2 THEN PyList(<<PyList(<<PyInt(12), PyNone>>)>>)
              ELSE IF l = 3 THEN PyEmptyDict
              ELSE GridArray(1).layers.v[l]])

\* Nine and eleven well-formed layers.
NineLayers == PyList(SubSeq(GridArray(1).layers.v, 1, LAYER_COUNT - 1))
ElevenLayers == PyList(Append(GridArray(1).layers.v, GridArray(1).layers.v[1]))

\* The JSON values of the key files that come from elsewhere.
ForeignValues ==
    <<GridArray(2).layers, SpecialLayers, TenIntegers, MisshapenLayers,
      NineLayers, ElevenLayers, PyList(<<>>),
      PyEmptyDict, PyStr(<<97, 98>>), PyNone, PyInt(10)>>

\* Texts that are not JSON: nothing, "[1, 2", "[1,]", "nul", "[1] 2" and an
\* unterminated string.
MalformedTexts ==
    {<<>>, <<91, 49, 44, 32, 50>>, <<91, 49, 44, 93>>, <<110, 117, 108>>,
     <<91, 49, 93, 32, 50>>, <<34, 97, 98>>}

ForeignTexts ==
    {WrittenElsewhere(ForeignValues[k]) : k \in 1..Len(ForeignValues)}
    \cup MalformedTexts

\* Whether a KeyArray object is held: key_array is not None.
IsKeyArray(key_array) == key_array.layers.t # "NoneType"

\* What the key store leaves alone.
otherThanKeyStore == <<cryptoVars, deriveVars, query, docVars, wireVars, streamCall,
      guiVars>>

\* KeyArray.generate
GenerateKeyArray ==
    /\ \E seed \in Seeds : current_key_array' = Generate(seed)
    /\ UNCHANGED <<key_file, dumped, lastLoad>>
    /\ UNCHANGED otherThanKeyStore

\* Another program puts a file at the path.
WriteKeyFile ==
    /\ \E text \in ForeignTexts : key_file' = text
    /\ dumped' = NoKeyArray
    /\ UNCHANGED <<current_key_array, lastLoad>>
    /\ UNCHANGED otherThanKeyStore

\* KeyArray.dump of the array in use.
Dump ==
    /\ IsKeyArray(current_key_array)
    /\ key_file' = KeyArrayDump(current_key_array)
    /\ dumped' = current_key_array
    /\ UNCHANGED <<current_key_array, lastLoad>>
    /\ UNCHANGED otherThanKeyStore

\* KeyArray.load of the file; the caller keeps the array when one is returned.
Load ==
    /\ key_file # NoFile
    /\ LET Loaded(r, data) ==
               /\ lastLoad' = [op |-> "load", data |-> data, error |-> r.error,
                               key_array |-> r.key_array, of |-> dumped]
               /\ current_key_array' = IF r.error = "none" THEN r.key_array
                                       ELSE current_key_array
       IN  Loaded(KeyArrayLoad(key_file), JsonLoads(key_file))
    /\ UNCHANGED <<key_file, dumped>>
    /\ UNCHANGED otherThanKeyStore

KeyStoreNext ==
    \/ GenerateKeyArray
    \/ WriteKeyFile
    \/ Dump
    \/ Load

(***************************************************************************)
(* The accessors: a caller asks a key array for a layer, asks the registry *)
(* for the coordinates of a pattern over the first layer, and iterates.    *)
(***************************************************************************)

\* The largest grid dimension of the key arrays the accessors are called on.
MaxGridSize == 5

\* No accessor has been called yet.
NoQuery ==
    [op |-> "none", arg |-> 0, size |-> 0, error |-> "none",
     layer |-> PyNone, generator |-> NoGenerator]

\* The integers passed as index and as digit: the valid ones and, on either
\* side, one more than a list of ten items can be indexed with.
IndexArguments == (-(LAYER_COUNT + 1))..(LAYER_COUNT + 1)

\* What an accessor call leaves alone.
otherThanAccessors ==
    <<cryptoVars, current_key_array, derivation, remembered, keyVars, docVars, wireVars, streamCall,
      guiVars>>

\* KeyArray.layer(index), called while no generator is being iterated.
CallLayer ==
    /\ live = NoGenerator
    /\ \E index \in IndexArguments :
         LET r == LayerOf(current_key_array, index)
         IN  query' = [op |-> "layer", arg |-> index, size |-> 0,
                       error |-> r.error, layer |-> r.value,
                       generator |-> NoGenerator]
    /\ UNCHANGED live
    /\ UNCHANGED otherThanAccessors

\* registry.coordinates(digit, layer) over the first layer; the caller
\* iterates the generator it is given.
CallCoordinates ==
    /\ \E digit \in IndexArguments :
         LET layer == LayerOf(current_key_array, 0).value
             r == Coordinates(digit, layer)
         IN  /\ query' = [op |-> "coordinates", arg |-> digit,
                          size |-> Len(layer.v), error |-> r.error,
                          layer |-> PyNone,
                          generator |-> IF r.error = "none" THEN r.value
                                        ELSE NoGenerator]
             /\ live' = IF r.error = "none" THEN r.value ELSE live
    /\ UNCHANGED otherThanAccessors

AccessorsNext ==
    \/ CallLayer
    \/ CallCoordinates
    \/ NextCoordinate

(***************************************************************************)
(* The document store: a text is saved to the document file and loaded     *)
(* from it; the file may also hold a document of an earlier generation or  *)
(* one that was made elsewhere.                                            *)
(***************************************************************************)

\* The texts saved: "", "hi" and two characters beyond ASCII.
DocumentTexts == {<<>>, <<104, 105>>, <<233, 128512>>}

\* The key materials given to save and load: "", "k" and "j".
DocumentKeyMaterials == {<<>>, <<107>>, <<106>>}

\* The salts and nonces os.urandom hands to a save.
DocumentDraws ==
    {[salt |-> [i \in 1..SALT_SIZE |-> (17 * i) % 256],
      nonce |-> [i \in 1..NONCE_SIZE |-> (5 * i) % 256]],
     [salt |-> [i \in 1..SALT_SIZE |-> 0], nonce |-> [i \in 1..NONCE_SIZE |-> 255]]}

\* The file was not written by save, and no call has been made.
NoSave == [text |-> <<>>, key |-> <<>>, by |-> "none"]
NoDocumentCall ==
    [op |-> "none", key |-> <<>>, text |-> <<>>, error |-> "none", steps |-> <<>>,
     crypto |-> NoResult, data |-> PyNone, of |-> NoSave, wrote |-> FALSE]

\* Payloads of the text "hi" under "k" in the three generations.
HiLegacy == EncryptLegacyFn(<<104, 105>>, <<107>>, [i \in 1..16 |-> i]).data
HiV2 == EncryptV2Fn(<<104, 105>>, <<107>>, [i \in 1..SALT_SIZE |-> i],
                    [i \in 1..NONCE_SIZE |-> 2 * i]).data
HiV3 == EncryptFn(<<104, 105>>, <<107>>, [i \in 1..SALT_SIZE |-> i],
                  [i \in 1..NONCE_SIZE |-> 2 * i]).data

\* A document object with the given version (none when tagged is false) and
\* the given payload (none when held is false).
Envelope(tagged, version, held, payload_data) ==
    PyDict((IF tagged THEN <<[key |-> KeyVersion, value |-> version]>> ELSE <<>>)
           \o (IF held THEN <<[key |-> KeyPayload, value |-> payload_data]>> ELSE <<>>))

\* The documents that come from elsewhere: the three generations as they
\* were written (the first without a tag), tags paired with the payload of
\* another generation, tags that are no generation (4, 0, true, "3", null)
\* with and without a payload, payloads that are no object or lack a field,
\* and a list.
ForeignDocuments ==
    <<Envelope(FALSE, PyNone, TRUE, LegacyToDict(HiLegacy)),
      Envelope(TRUE, PyInt(1), TRUE, LegacyToDict(HiLegacy)),
      Envelope(TRUE, PyInt(2), TRUE, ToDict(HiV2)),
      Envelope(TRUE, PyInt(3), TRUE, ToDict(HiV3)),
      Envelope(TRUE, PyInt(1), TRUE, ToDict(HiV3)),
      Envelope(FALSE, PyNone, TRUE, ToDict(HiV3)),
      Envelope(TRUE, PyInt(2), TRUE, ToDict(HiV3)),
      Envelope(TRUE, PyInt(3), TRUE, ToDict(HiV2)),
      Envelope(TRUE, PyInt(3), TRUE, LegacyToDict(HiLegacy)),
      Envelope(TRUE, PyInt(4), TRUE, ToDict(HiV3)),
      Envelope(TRUE, PyInt(4), TRUE, PyNone),
      Envelope(TRUE, PyInt(4), FALSE, PyNone),
      Envelope(TRUE, PyInt(0), TRUE, LegacyToDict(HiLegacy)),
      Envelope(TRUE, PyBool(TRUE), TRUE, LegacyToDict(HiLegacy)),
      Envelope(TRUE, PyStr(<<51>>), TRUE, ToDict(HiV3)),
      Envelope(TRUE, PyNone, TRUE, ToDict(HiV3)),
      Envelope(TRUE, PyInt(3), TRUE, PyStr(<<97, 98, 99>>)),
      Envelope(TRUE, PyInt(3), FALSE, PyNone),
      PyList(<<PyInt(1)>>)>>

\* The texts of those documents, and "{" which is no JSON.
ForeignDocumentTexts ==
    {JsonDumps(ForeignDocuments[k]) : k \in 1..Len(ForeignDocuments)} \cup {<<123>>}

\* What the document store leaves alone.
otherThanDocuments ==
    <<cryptoVars, current_key_array, deriveVars, keyVars, query, wireVars, streamCall,
      guiVars>>

\* ShopotDocument(text).save(path, key_material)
SaveDocument ==
    /\ \E text \in DocumentTexts, key_material \in DocumentKeyMaterials,
          drawn \in DocumentDraws :
         LET Saved(r) ==
                 /\ docCall' = [op |-> "save", key |-> key_material, text |-> text,
                                error |-> r.error, steps |-> r.steps,
                                crypto |-> r.crypto, data |-> PyNone, of |-> NoSave,
                                wrote |-> r.error = "none"]
                 /\ doc_file' = IF r.error = "none" THEN r.written ELSE doc_file
                 /\ saved' = IF r.error = "none"
                             THEN [text |-> text, key |-> key_material, by |-> "save"]
                             ELSE saved
         IN  Saved(DocumentSave(text, key_material, drawn.salt, drawn.nonce))
    /\ UNCHANGED otherThanDocuments

\* A document from elsewhere is at the path before anything is saved there.
PutDocument ==
    /\ doc_file = NoFile
    /\ \E text \in ForeignDocumentTexts : doc_file' = text
    /\ saved' = NoSave
    /\ UNCHANGED docCall
    /\ UNCHANGED otherThanDocuments

\* ShopotDocument.load(path, key_material)
LoadDocument ==
    /\ doc_file # NoFile
    /\ \E key_material \in DocumentKeyMaterials :
         LET Loaded(r, parsed) ==
                 docCall' = [op |-> "load", key |-> key_material, text |-> r.text,
                             error |-> r.error, steps |-> r.steps, crypto |-> r.crypto,
                             data |-> parsed.value, of |-> saved, wrote |-> FALSE]
         IN  Loaded(DocumentLoad(doc_file, key_material), JsonLoads(doc_file))
    /\ UNCHANGED <<doc_file, saved>>
    /\ UNCHANGED otherThanDocuments

DocumentsNext ==
    \/ SaveDocument
    \/ PutDocument
    \/ LoadDocument

(***************************************************************************)
(* A payload on the wire: the v3 payload of "hello" under "k" is turned    *)
(* into a dict by to_dict, one bit of the base64 text of its mac may be    *)
(* flipped, and the dict is read by from_dict and decrypted with "k".      *)
(***************************************************************************)

Hello == <<104, 101, 108, 108, 111>>
KeyK == <<107>>

NoWire == [data |-> PyNone, flip |-> <<>>]
NoWireCall == [op |-> "none", error |-> "none", plaintext |-> <<>>, steps |-> <<>>]

\* The bits of a character of the text that may flip: the text stays ASCII.
FlipBits == 0..6

\* 2 ** n
Pow2(n) == IF n = 0 THEN 1 ELSE IF n = 1 THEN 2 ELSE IF n = 2 THEN 4
           ELSE IF n = 3 THEN 8 ELSE IF n = 4 THEN 16 ELSE IF n = 5 THEN 32
           ELSE IF n = 6 THEN 64 ELSE 128

\* d with d[key] = value, for a key d has.
DictWith(d, key, value) ==
    PyDict([k \in 1..Len(d.v) |->
              IF d.v[k].key = key THEN [key |-> key, value |-> value] ELSE d.v[k]])

\* decrypt(EncryptedPayload.from_dict(data), key_material): the error raised
\* (or "none"), the plaintext returned and the calls made.
DecodeAndDecrypt(data, key_material) ==
    LET Decrypted(r) ==
            [op |-> "decrypt", error |-> IF r.status = "ok" THEN "none" ELSE r.status,
             plaintext |-> r.data, steps |-> <<"EncryptedPayload.from_dict", "decrypt">>]
        Read(p) ==
            IF p.error # "none"
            THEN [op |-> "decrypt", error |-> p.error, plaintext |-> <<>>,
                  steps |-> <<"EncryptedPayload.from_dict">>]
            ELSE Decrypted(DecryptFn(p.payload, key_material))
    IN  Read(FromDict(data))

\* What the wire leaves alone.
otherThanWire ==
    <<cryptoVars, current_key_array, deriveVars, keyVars, query, docVars, streamCall,
      guiVars>>

\* encrypt(b"hello", "k").to_dict()
Serialize ==
    /\ wire = NoWire
    /\ \E drawn \in DocumentDraws :
         wire' = [data |-> ToDict(EncryptFn(Hello, KeyK, drawn.salt, drawn.nonce).data),
                  flip |-> <<>>]
    /\ UNCHANGED wireCall
    /\ UNCHANGED otherThanWire

\* One bit of one character of the mac's base64 text is flipped.
FlipMacBit ==
    /\ wire.data.t = "dict"
    /\ wire.flip = <<>>
    /\ wireCall.op = "none"
    /\ \E i \in 1..Len(DictItem(wire.data, KeyMac).v), bit \in FlipBits :
         LET text == DictItem(wire.data, KeyMac).v
             flipped == [text EXCEPT ![i] = Xor(@, Pow2(bit))]
         IN  wire' = [data |-> DictWith(wire.data, KeyMac, PyStr(flipped)),
                      flip |-> <<i, bit>>]
    /\ UNCHANGED wireCall
    /\ UNCHANGED otherThanWire

\* decrypt(EncryptedPayload.from_dict(data), "k")
DecryptWire ==
    /\ wire.data.t = "dict"
    /\ wireCall' = DecodeAndDecrypt(wire.data, KeyK)
    /\ UNCHANGED wire
    /\ UNCHANGED otherThanWire

WireNext ==
    \/ Serialize
    \/ FlipMacBit
    \/ DecryptWire

(***************************************************************************)
(* Keystreams: a plaintext of a chosen length is encrypted by one of the   *)
(* three generations.                                                      *)
(***************************************************************************)

MaxStreamLen == 130

\* hashlib.sha512().digest_size, the size of a keystream block
BlockSize == 64

NoStreamCall ==
    [op |-> "none", length |-> 0, plaintext |-> <<>>, key_material |-> <<>>,
     payload |-> NoPayload, blocks |-> 0]

\* The plaintext of the given length.
PlaintextOfLength(length) == [i \in 1..length |-> (7 * i) % 256]

\* "k" and "Aé" (three bytes)
StreamKeyMaterials == {<<107>>, <<65, 233>>}

\* What an encryption leaves alone.
otherThanStream ==
    <<cryptoVars, current_key_array, deriveVars, keyVars, query, docVars, wireVars,
      guiVars>>

\* The call is recorded with the payload it returned and the number of
\* keystream blocks it computed.
StreamCalled(op, length, key_material, r) ==
    /\ streamCall' = [op |-> op, length |-> length,
                      plaintext |-> PlaintextOfLength(length),
                      key_material |-> key_material, payload |-> r.data,
                      blocks |-> r.blocks]
    /\ UNCHANGED otherThanStream

\* encrypt_legacy(plaintext, key_material)
StreamLegacy ==
    /\ streamCall.op = "none"
    /\ \E length \in 0..MaxStreamLen, key_material \in StreamKeyMaterials,
          drawn \in DocumentDraws :
         StreamCalled("encrypt_legacy", length, key_material,
                      EncryptLegacyFn(PlaintextOfLength(length), key_material,
                                      drawn.salt))

\* encrypt_v2(plaintext, key_material)
StreamV2 ==
    /\ streamCall.op = "none"
    /\ \E length \in 0..MaxStreamLen, key_material \in StreamKeyMaterials,
          drawn \in DocumentDraws :
         StreamCalled("encrypt_v2", length, key_material,
                      EncryptV2Fn(PlaintextOfLength(length), key_material,
                                  drawn.salt, drawn.nonce))

\* encrypt(plaintext, key_material)
StreamV3 ==
    /\ streamCall.op = "none"
    /\ \E length \in 0..MaxStreamLen, key_material \in StreamKeyMaterials,
          drawn \in DocumentDraws :
         StreamCalled("encrypt", length, key_material,
                      EncryptFn(PlaintextOfLength(length), key_material,
                                drawn.salt, drawn.nonce))

StreamNext ==
    \/ StreamLegacy
    \/ StreamV2
    \/ StreamV3

(***************************************************************************)
(* The key array page (shopot/gui.py, KeyArrayPage): a key array is loaded *)
(* from a chosen file or generated, and its layers are shown one at a      *)
(* time.                                                                   *)
(***************************************************************************)

\* for item in x: the items of a list, the characters of a str and the keys
\* of a dict; TypeError for an int and for None.
Iterate(x) ==
    IF x.t = "list" THEN Value(x.v)
    ELSE IF x.t = "str" THEN Value([i \in 1..Len(x.v) |-> PyStr(<<x.v[i]>>)])
    ELSE IF x.t = "dict" THEN Value([i \in 1..Len(x.v) |-> PyStr(x.v[i].key)])
    ELSE Raised("TypeError")

\* sep.join(x): TypeError unless x can be iterated and every item is a str.
StrJoin(sep, x) ==
    LET Joined(items) ==
            IF items.error # "none" THEN items
            ELSE IF \E i \in 1..Len(items.value) : items.value[i].t # "str"
            THEN Raised("TypeError")
            ELSE Value(PyStr(JoinWith(sep, [i \in 1..Len(items.value) |->
                                               items.value[i].v])))
    IN  Joined(Iterate(x))

\* KeyArray.as_text: the rows of the layer, each joined by spaces, one per
\* line.
AsText(key_array, index) ==
    LET Lines(rows) ==
            IF rows.error # "none" THEN rows
            ELSE IF \E r \in 1..Len(rows.value) :
                       StrJoin(<<32>>, rows.value[r]).error # "none"
            THEN Raised("TypeError")
            ELSE Value(PyStr(JoinWith(<<10>>,
                                      [r \in 1..Len(rows.value) |->
                                          StrJoin(<<32>>, rows.value[r]).value.v])))
        OfLayer(layer) ==
            IF layer.error # "none" THEN layer ELSE Lines(Iterate(layer.value))
    IN  OfLayer(LayerOf(key_array, index))

\* The label when no key array is shown, and the page as it is constructed.
NoLabel == [layer |-> 0, total |-> 0]
NoPage == [key_array |-> NoKeyArray, current_layer |-> 0, layer_label |-> NoLabel,
           text |-> <<>>]
NoPageCall == [op |-> "none", before |-> 0, error |-> "none", refresh |-> "none"]

\* What the dialog of load_key_array returns: nothing (cancelled), or the
\* path of a file that is missing, is no JSON, holds nine layers, holds a
\* well-formed array, holds ten misshapen layers or ten integers, or was
\* dumped by this program.
Cancelled == <<1>>
PageFiles ==
    {Cancelled, NoFile, <<91, 49, 44, 32, 50>>, WrittenElsewhere(NineLayers),
     WrittenElsewhere(GridArray(2).layers), WrittenElsewhere(MisshapenLayers),
     WrittenElsewhere(TenIntegers), KeyArrayDump(Generate(7))}

\* KeyArray.load(path): Path(path).read_text() raises for a missing file.
LoadFrom(file) ==
    IF file = NoFile THEN [error |-> "FileNotFoundError", key_array |-> NoKeyArray]
    ELSE KeyArrayLoad(file)

\* _refresh_layer_display: the label, then the text; when as_text raises
\* the label has been set and the text stays.
Refreshed(p) ==
    IF ~IsKeyArray(p.key_array)
    THEN [p EXCEPT !.layer_label = NoLabel, !.text = <<>>]
    ELSE LET Shown(text) ==
                 [p EXCEPT !.layer_label = [layer |-> p.current_layer + 1,
                                            total |-> Len(p.key_array.layers.v)],
                           !.text = IF text.error = "none" THEN text.value.v ELSE @]
         IN  Shown(AsText(p.key_array, p.current_layer))

\* The exception _refresh_layer_display leaves the handler with.
RefreshError(p) ==
    IF ~IsKeyArray(p.key_array) THEN "none" ELSE AsText(p.key_array, p.current_layer).error

\* Mutant of LayerAfter: the number is not wrapped.
LayerAfterUnwrapped(current_layer, total) == current_layer + 1

\* (self.current_layer + 1) % len(self.key_array.layers)
LayerAfter(current_layer, total) == (current_layer + 1) % total

\* (self.current_layer - 1) % len(self.key_array.layers)
LayerBefore(current_layer, total) == (current_layer - 1) % total

\* What the key array page leaves alone.
otherThanPage ==
    <<cryptoVars, current_key_array, deriveVars, keyVars, query, docVars, wireVars,
      streamCall, editorVars>>

\* The handler ran to the page p.
PageHandled(op, p, error, refresh) ==
    /\ page' = p
    /\ pageCall' = [op |-> op, before |-> page.current_layer, error |-> error,
                    refresh |-> refresh]
    /\ UNCHANGED otherThanPage

\* KeyArrayPage.load_key_array
LoadKeyArray ==
    \E file \in PageFiles :
        IF file = Cancelled THEN PageHandled("load_key_array", page, "cancelled", "none")
        ELSE LET Shown(p) ==
                     PageHandled("load_key_array", Refreshed(p), "none", RefreshError(p))
                 Loaded(r) ==
                     IF r.error # "none"
                     THEN PageHandled("load_key_array", page, r.error, "none")
                     ELSE Shown([page EXCEPT !.key_array = r.key_array,
                                             !.current_layer = 0])
             IN  Loaded(LoadFrom(file))

\* KeyArrayPage.generate_key_array
GeneratePageKeyArray ==
    \E seed \in Seeds :
        LET Shown(p) ==
                PageHandled("generate_key_array", Refreshed(p), "none", RefreshError(p))
            Generated(key_array) ==
                Shown([page EXCEPT !.key_array = key_array, !.current_layer = 0])
        IN  Generated(Generate(seed))

\* KeyArrayPage.prev_layer
PrevLayer ==
    LET Shown(p) == PageHandled("prev_layer", Refreshed(p), "none", RefreshError(p))
    IN  IF ~IsKeyArray(page.key_array)
        THEN PageHandled("prev_layer", page, "none", "none")
        ELSE Shown([page EXCEPT !.current_layer =
                       LayerBefore(@, Len(page.key_array.layers.v))])

\* KeyArrayPage.next_layer
NextLayer ==
    LET Shown(p) == PageHandled("next_layer", Refreshed(p), "none", RefreshError(p))
    IN  IF ~IsKeyArray(page.key_array)
        THEN PageHandled("next_layer", page, "none", "none")
        ELSE Shown([page EXCEPT !.current_layer =
                       LayerAfter(@, Len(page.key_array.layers.v))])

PageNext ==
    \/ LoadKeyArray
    \/ GeneratePageKeyArray
    \/ PrevLayer
    \/ NextLayer

(***************************************************************************)
(* The document editor (shopot/gui.py, ShopotApp and DocumentEditorPage).  *)
(* The key array a handler derives from is whatever KeyArray.load returned,*)
(* so the derivation is modelled for every value a key file can hold.      *)
(***************************************************************************)

\* len(x): TypeError for an int, a bool and None.
PyLen(x) ==
    IF x.t \in {"list", "str", "dict"} THEN Value(Len(x.v)) ELSE Raised("TypeError")

\* x[i] for an integer i: an item of a list, a character of a str, KeyError
\* for a dict (whose keys are strings), TypeError for the rest.
PyItem(x, i) ==
    LET CharAt(c) == IF c.error # "none" THEN c ELSE Value(PyStr(<<c.value>>))
    IN  IF x.t = "list" THEN ListIndex(x.v, i)
        ELSE IF x.t = "str" THEN CharAt(ListIndex(x.v, i))
        ELSE IF x.t = "dict" THEN Raised("KeyError")
        ELSE Raised("TypeError")

\* "".join(_collect_elements(pattern_index, layer)): the pattern raises on
\* len(layer), then layer[row][col] is taken for each coordinate, and join
\* wants every element to be a str.
JoinedElements(pattern_index, layer) ==
    LET ElementAt(row, col) ==
            IF row.error # "none" THEN row ELSE PyItem(row.value, col)
        Joined(elements) ==
            IF \E k \in 1..Len(elements) : elements[k].error # "none"
            THEN Raised(elements[CHOOSE k \in 1..Len(elements) :
                                    /\ elements[k].error # "none"
                                    /\ \A h \in 1..(k - 1) :
                                          /\ elements[h].error = "none"
                                          /\ elements[h].value.t = "str"].error)
            ELSE IF \E k \in 1..Len(elements) : elements[k].value.t # "str"
            THEN Raised("TypeError")
            ELSE Value(PyStr(Chain([k \in 1..Len(elements) |-> elements[k].value.v])))
        Selected(coords) ==
            Joined([k \in 1..Len(coords) |->
                       ElementAt(PyItem(layer, coords[k][1]), coords[k][2])])
    IN  IF PyLen(layer).error # "none" THEN Raised("TypeError")
        ELSE Selected(Drain(Coordinates(pattern_index, layer).value))

\* The for loop of password_to_key_material over a key array of any shape,
\* from layer_index on: the fragments, or the first error.
RECURSIVE FragmentsOfAnyFrom(_, _, _)
FragmentsOfAnyFrom(password, key_array, layer_index) ==
    LET Then(fragment, rest) ==
            IF fragment.error # "none" THEN fragment
            ELSE IF rest.error # "none" THEN rest
            ELSE Value(PyStr(fragment.value.v \o rest.value.v))
        OfLayer(layer) ==
            IF layer.error # "none" THEN layer
            ELSE Then(JoinedElements(IntOfChar(password[layer_index + 1]).value,
                                     layer.value),
                      FragmentsOfAnyFrom(password, key_array, layer_index + 1))
    IN  IF layer_index >= Len(password) THEN Value(PyStr(<<>>))
        ELSE OfLayer(LayerOf(key_array, layer_index))

\* password_to_key_material(password, key_array) for a key array of any
\* shape: the key material, or the error raised.
KeyMaterialOfAny(password, key_array) ==
    LET Derived(r) ==
            IF r.error # "none" THEN [status |-> r.error, material |-> <<>>]
            ELSE [status |-> "ok", material |-> r.value.v]
        Validated(v) ==
            IF v # "ok" THEN [status |-> v, material |-> <<>>]
            ELSE Derived(FragmentsOfAnyFrom(password, key_array, 0))
    IN  Validated(ValidatePassword(password))

\* A path, and no path (None).
PathOf(name) == [t |-> "str", v |-> name]
NoPath == [t |-> "NoneType", v |-> ""]

\* if path: a path that is neither None nor "".
Truthy(path) == path.t = "str" /\ path.v # ""

\* The key files the dialogs can select: a well-formed array, ten layers of
\* which three are misshapen, nine layers, and a path where no file is.
KeyPathNames == {"grid.shptk", "misshapen.shptk", "nine.shptk", "missing.shptk"}
KeyFileAt(name) ==
    CASE name = "grid.shptk" -> KeyArrayDump(GridArray(2))
      [] name = "misshapen.shptk" -> WrittenElsewhere(MisshapenLayers)
      [] name = "nine.shptk" -> WrittenElsewhere(NineLayers)
      [] OTHER -> NoFile

\* KeyArray.load(key_path) for each of the key files, which no handler of
\* the editor writes.
LoadedKeyFile == [name \in KeyPathNames |-> LoadFrom(KeyFileAt(name))]

\* The document paths the dialogs can select; the second is a file that
\* cannot be written, a document saved elsewhere under the key material "k".
DocumentPathNames == {"a.shpt", "locked.shpt"}
Writable(name) == name # "locked.shpt"
LockedDocument ==
    DocumentSave(<<104, 105>>, <<107>>, [i \in 1..SALT_SIZE |-> i],
                 [i \in 1..NONCE_SIZE |-> 2 * i]).written

\* What a file dialog returns when it is cancelled.
NoSelection == ""

\* What the password dialog returns: None when cancelled, else at most ten
\* digits: "0123456789", "012".
DialogPasswords == {PyNone, PyStr(DigitPassword(48, 0, 1)), PyStr(<<48, 49, 50>>)}

\* The texts typed into the editor (no image blocks).
EditorTexts == {<<>>, <<104, 105>>}

\* The salt and nonce os.urandom hands to a save of the editor.
EditorDraws == {[salt |-> [i \in 1..SALT_SIZE |-> (17 * i) % 256],
                 nonce |-> [i \in 1..NONCE_SIZE |-> (5 * i) % 256]]}

\* The editor as it is constructed, with the home page shown; the document
\* files before any save; no handler run.
NoDocument ==
    [text |-> <<>>, current_document_path |-> NoPath, key_array |-> NoKeyArray,
     current_key_path |-> NoPath, current_password |-> PyNone,
     status |-> <<"No document loaded">>, shown |-> "HomePage"]
NoDocuments ==
    [name \in DocumentPathNames |-> IF Writable(name) THEN NoFile ELSE LockedDocument]
NoEditorCall == [op |-> "none", outcome |-> "none", error |-> "none", wrote |-> FALSE,
                 path |-> NoSelection]

\* What the editor leaves alone.
otherThanEditor ==
    <<cryptoVars, current_key_array, deriveVars, keyVars, query, docVars, wireVars,
      streamCall, pageVars>>

\* The handler ran: the editor, the files and the record of the call.
EditorHandled(op, e, files, ending, error, wrote, path) ==
    /\ editor' = e
    /\ disk' = files
    /\ editorCall' = [op |-> op, outcome |-> ending, error |-> error,
                      wrote |-> wrote, path |-> path]
    /\ UNCHANGED otherThanEditor

\* Mutant of display_document: a key array of None leaves the one held.
display_document_keeping_key(e, text, document_path, key_array, key_path, password) ==
    [e EXCEPT !.text = text,
              !.current_document_path = document_path,
              !.key_array = IF IsKeyArray(key_array) THEN key_array ELSE @,
              !.current_key_path = key_path,
              !.current_password = password,
              !.status = (IF Truthy(document_path) THEN <<"Editing: ", document_path.v>>
                          ELSE <<"Editing new document">>)
                         \o (IF Truthy(key_path) THEN <<" | Key: ", key_path.v>>
                             ELSE <<>>)]

\* DocumentEditorPage.display_document
display_document(e, text, document_path, key_array, key_path, password) ==
    [e EXCEPT !.text = text,
              !.current_document_path = document_path,
              !.key_array = key_array,
              !.current_key_path = key_path,
              !.current_password = password,
              !.status = (IF Truthy(document_path) THEN <<"Editing: ", document_path.v>>
                          ELSE <<"Editing new document">>)
                         \o (IF Truthy(key_path) THEN <<" | Key: ", key_path.v>>
                             ELSE <<>>)]

\* ShopotApp._prompt_for_key_context: the key context, or why there is none.
prompt_for_key_context(key_path, password) ==
    LET None(ending, error) ==
            [outcome |-> ending, error |-> error, key_array |-> NoKeyArray,
             password |-> PyNone, key_path |-> NoPath]
        Loaded(r) ==
            IF r.error # "none" THEN None("failed", r.error)
            ELSE [outcome |-> "done", error |-> "none", key_array |-> r.key_array,
                  password |-> password, key_path |-> PathOf(key_path)]
    IN  IF key_path = NoSelection THEN None("cancelled", "none")
        ELSE IF password.t = "NoneType" THEN None("cancelled", "none")
        ELSE IF ValidatePassword(password.v) # "ok"
        THEN None("failed", ValidatePassword(password.v))
        ELSE Loaded(LoadedKeyFile[key_path])

\* ShopotDocument.load(doc_path, key_material) on the files of the editor.
LoadAt(files, doc_path, key_material) ==
    IF files[doc_path] = NoFile
    THEN DocumentResult("FileNotFoundError", <<>>, <<>>, <<>>, NoResult)
    ELSE DocumentLoad(files[doc_path], key_material)

\* Mutant of opened_document: the editor shows what was read even when the
\* load failed.
opened_document_regardless(e, r, doc_path, key_context) ==
    [display_document(e, r.text, PathOf(doc_path), key_context.key_array,
                      key_context.key_path, key_context.password)
       EXCEPT !.shown = "DocumentEditorPage"]

\* The end of open_document_flow: an error is shown and the handler returns,
\* or the document is displayed and the editor page is shown.
opened_document(e, r, doc_path, key_context) ==
    IF r.error # "none" THEN e
    ELSE [display_document(e, r.text, PathOf(doc_path), key_context.key_array,
                           key_context.key_path, key_context.password)
            EXCEPT !.shown = "DocumentEditorPage"]

\* ShopotApp.open_document_flow
open_document_flow ==
    /\ editor.shown \in {"HomePage", "DocumentEditorPage"}
    /\ \E doc_path \in DocumentPathNames \cup {NoSelection},
          key_path \in KeyPathNames \cup {NoSelection},
          password \in DialogPasswords :
         LET Handled(e, ending, error) ==
                 EditorHandled("open_document_flow", e, disk, ending, error, FALSE,
                               doc_path)
             Read(r, key_context) ==
                 Handled(opened_document(editor, r, doc_path, key_context),
                         IF r.error # "none" THEN "failed" ELSE "done", r.error)
             Derived(m, key_context) ==
                 IF m.status # "ok" THEN Handled(editor, "failed", m.status)
                 ELSE Read(LoadAt(disk, doc_path, m.material), key_context)
             Prompted(key_context) ==
                 IF key_context.outcome # "done"
                 THEN Handled(editor, key_context.outcome, key_context.error)
                 ELSE Derived(KeyMaterialOfAny(key_context.password.v,
                                               key_context.key_array), key_context)
         IN  IF doc_path = NoSelection THEN Handled(editor, "cancelled", "none")
             ELSE Prompted(prompt_for_key_context(key_path, password))

\* ShopotApp.create_new_document
create_new_document ==
    /\ editor.shown = "HomePage"
    /\ EditorHandled("create_new_document",
                     [display_document(editor, <<>>, NoPath, NoKeyArray, NoPath, PyNone)
                        EXCEPT !.shown = "DocumentEditorPage"],
                     disk, "done", "none", FALSE, NoSelection)

\* The Back button of the editor: controller.show_frame("HomePage").
back_to_home ==
    /\ editor.shown = "DocumentEditorPage"
    /\ EditorHandled("show_frame", [editor EXCEPT !.shown = "HomePage"], disk,
                     "done", "none", FALSE, NoSelection)

\* The user types: the text widget holds another text.
type_text ==
    /\ editor.shown = "DocumentEditorPage"
    /\ \E text \in EditorTexts \ {editor.text} :
         EditorHandled("type", [editor EXCEPT !.text = text], disk, "done", "none",
                       FALSE, NoSelection)

\* DocumentEditorPage.set_key_context
set_key_context ==
    /\ editor.shown = "DocumentEditorPage"
    /\ \E key_path \in KeyPathNames \cup {NoSelection}, password \in DialogPasswords :
         LET Handled(e, ending, error) ==
                 EditorHandled("set_key_context", e, disk, ending, error, FALSE,
                               NoSelection)
             Derived(m, key_array) ==
                 IF m.status # "ok" THEN Handled(editor, "failed", m.status)
                 ELSE Handled([editor EXCEPT !.key_array = key_array,
                                             !.current_key_path = PathOf(key_path),
                                             !.current_password = password,
                                             !.status = <<"Key loaded: ", key_path>>],
                              "done", "none")
             Loaded(r) ==
                 IF r.error # "none" THEN Handled(editor, "failed", r.error)
                 ELSE Derived(KeyMaterialOfAny(password.v, r.key_array), r.key_array)
         IN  IF key_path = NoSelection THEN Handled(editor, "cancelled", "none")
             ELSE IF password.t = "NoneType" THEN Handled(editor, "cancelled", "none")
             ELSE Loaded(LoadedKeyFile[key_path])

\* if self.key_array is None or self.current_password is None
MissingKey(e) == ~IsKeyArray(e.key_array) \/ e.current_password.t = "NoneType"

\* DocumentEditorPage._perform_save: what is written at the path (nothing
\* when the save is refused or fails) and how the save ended.
perform_save(e, path, drawn) ==
    LET Ended(ending, error, written) ==
            [outcome |-> ending, error |-> error, written |-> written]
        Saved(r) ==
            IF r.error # "none" THEN Ended("failed", r.error, NoFile)
            ELSE IF ~Writable(path) THEN Ended("failed", "PermissionError", NoFile)
            ELSE Ended("done", "none", r.written)
        Derived(m) ==
            IF m.status # "ok" THEN Ended("failed", m.status, NoFile)
            ELSE Saved(DocumentSave(e.text, m.material, drawn.salt, drawn.nonce))
    IN  IF MissingKey(e) THEN Ended("refused", "Missing key", NoFile)
        ELSE Derived(KeyMaterialOfAny(e.current_password.v, e.key_array))

\* The files after _perform_save.
WrittenAt(files, path, r) ==
    IF r.outcome = "done" THEN [files EXCEPT ![path] = r.written] ELSE files

\* DocumentEditorPage.save_document_as, for the handler named op.
save_as(op) ==
    \E path \in DocumentPathNames \cup {NoSelection}, drawn \in EditorDraws :
        LET Performed(r) ==
                EditorHandled(op,
                              [editor EXCEPT !.current_document_path = PathOf(path),
                                             !.status = <<"Saved: ", path>>],
                              WrittenAt(disk, path, r), r.outcome, r.error,
                              r.outcome = "done", path)
        IN  IF path = NoSelection
            THEN EditorHandled(op, editor, disk, "cancelled", "none", FALSE, path)
            ELSE Performed(perform_save(editor, path, drawn))

\* DocumentEditorPage.save_document_as
save_document_as ==
    /\ editor.shown = "DocumentEditorPage"
    /\ save_as("save_document_as")

\* DocumentEditorPage.save_document
save_document ==
    /\ editor.shown = "DocumentEditorPage"
    /\ IF ~Truthy(editor.current_document_path) THEN save_as("save_document")
       ELSE \E drawn \in EditorDraws :
                LET Performed(r) ==
                        EditorHandled("save_document", editor,
                                      WrittenAt(disk, editor.current_document_path.v, r),
                                      r.outcome, r.error, r.outcome = "done",
                                      editor.current_document_path.v)
                IN  Performed(perform_save(editor, editor.current_document_path.v,
                                           drawn))

EditorNext ==
    \/ open_document_flow
    \/ create_new_document
    \/ back_to_home
    \/ type_text
    \/ set_key_context
    \/ save_document
    \/ save_document_as

(***************************************************************************)
(* The specifications                                                      *)
(***************************************************************************)

\* No call has been made yet and no key array is held.
CryptoInit ==
    /\ payload = NoPayload
    /\ gen = 0
    /\ plain = <<>>
    /\ keyUsed = <<>>
    /\ tampered = "none"
    /\ outcome = NoOutcome
    /\ current_key_array = NoKeyArray
    /\ derivation = NoCall
    /\ remembered = NoCall
    /\ live = NoGenerator
    /\ key_file = NoFile
    /\ dumped = NoKeyArray
    /\ lastLoad = NoLoad
    /\ query = NoQuery
    /\ doc_file = NoFile
    /\ saved = NoSave
    /\ docCall = NoDocumentCall
    /\ wire = NoWire
    /\ wireCall = NoWireCall
    /\ streamCall = NoStreamCall
    /\ page = NoPage
    /\ pageCall = NoPageCall
    /\ editor = NoDocument
    /\ disk = NoDocuments
    /\ editorCall = NoEditorCall

SpecCrypto == CryptoInit /\ [][CryptoNext]_vars

\* A key array has been generated or loaded; no call has been made yet.
DeriveInit ==
    /\ payload = NoPayload
    /\ gen = 0
    /\ plain = <<>>
    /\ keyUsed = <<>>
    /\ tampered = "none"
    /\ outcome = NoOutcome
    /\ current_key_array \in DeriveKeyArrays
    /\ derivation = NoCall
    /\ remembered = NoCall
    /\ live = NoGenerator
    /\ key_file = NoFile
    /\ dumped = NoKeyArray
    /\ lastLoad = NoLoad
    /\ query = NoQuery
    /\ doc_file = NoFile
    /\ saved = NoSave
    /\ docCall = NoDocumentCall
    /\ wire = NoWire
    /\ wireCall = NoWireCall
    /\ streamCall = NoStreamCall
    /\ page = NoPage
    /\ pageCall = NoPageCall
    /\ editor = NoDocument
    /\ disk = NoDocuments
    /\ editorCall = NoEditorCall

SpecDerive == DeriveInit /\ [][DeriveNext]_vars

\* No key array is in use and no key file has been written.
KeyStoreInit ==
    /\ payload = NoPayload
    /\ gen = 0
    /\ plain = <<>>
    /\ keyUsed = <<>>
    /\ tampered = "none"
    /\ outcome = NoOutcome
    /\ current_key_array = NoKeyArray
    /\ derivation = NoCall
    /\ remembered = NoCall
    /\ live = NoGenerator
    /\ key_file = NoFile
    /\ dumped = NoKeyArray
    /\ lastLoad = NoLoad
    /\ query = NoQuery
    /\ doc_file = NoFile
    /\ saved = NoSave
    /\ docCall = NoDocumentCall
    /\ wire = NoWire
    /\ wireCall = NoWireCall
    /\ streamCall = NoStreamCall
    /\ page = NoPage
    /\ pageCall = NoPageCall
    /\ editor = NoDocument
    /\ disk = NoDocuments
    /\ editorCall = NoEditorCall

SpecKeyArray == KeyStoreInit /\ [][KeyStoreNext]_vars

\* A key array of some grid dimension is held; no accessor has been called.
AccessorsInit ==
    /\ payload = NoPayload
    /\ gen = 0
    /\ plain = <<>>
    /\ keyUsed = <<>>
    /\ tampered = "none"
    /\ outcome = NoOutcome
    /\ current_key_array \in {GridArray(n) : n \in 0..MaxGridSize}
    /\ derivation = NoCall
    /\ remembered = NoCall
    /\ live = NoGenerator
    /\ key_file = NoFile
    /\ dumped = NoKeyArray
    /\ lastLoad = NoLoad
    /\ query = NoQuery
    /\ doc_file = NoFile
    /\ saved = NoSave
    /\ docCall = NoDocumentCall
    /\ wire = NoWire
    /\ wireCall = NoWireCall
    /\ streamCall = NoStreamCall
    /\ page = NoPage
    /\ pageCall = NoPageCall
    /\ editor = NoDocument
    /\ disk = NoDocuments
    /\ editorCall = NoEditorCall

SpecAccessors == AccessorsInit /\ [][AccessorsNext]_vars

\* No document file has been written and no call has been made.
DocumentsInit ==
    /\ payload = NoPayload
    /\ gen = 0
    /\ plain = <<>>
    /\ keyUsed = <<>>
    /\ tampered = "none"
    /\ outcome = NoOutcome
    /\ current_key_array = NoKeyArray
    /\ derivation = NoCall
    /\ remembered = NoCall
    /\ live = NoGenerator
    /\ key_file = NoFile
    /\ dumped = NoKeyArray
    /\ lastLoad = NoLoad
    /\ query = NoQuery
    /\ doc_file = NoFile
    /\ saved = NoSave
    /\ docCall = NoDocumentCall
    /\ wire = NoWire
    /\ wireCall = NoWireCall
    /\ streamCall = NoStreamCall
    /\ page = NoPage
    /\ pageCall = NoPageCall
    /\ editor = NoDocument
    /\ disk = NoDocuments
    /\ editorCall = NoEditorCall

SpecDocuments == DocumentsInit /\ [][DocumentsNext]_vars

WireInit ==
    /\ payload = NoPayload
    /\ gen = 0
    /\ plain = <<>>
    /\ keyUsed = <<>>
    /\ tampered = "none"
    /\ outcome = NoOutcome
    /\ current_key_array = NoKeyArray
    /\ derivation = NoCall
    /\ remembered = NoCall
    /\ live = NoGenerator
    /\ key_file = NoFile
    /\ dumped = NoKeyArray
    /\ lastLoad = NoLoad
    /\ query = NoQuery
    /\ doc_file = NoFile
    /\ saved = NoSave
    /\ docCall = NoDocumentCall
    /\ wire = NoWire
    /\ wireCall = NoWireCall
    /\ streamCall = NoStreamCall
    /\ page = NoPage
    /\ pageCall = NoPageCall
    /\ editor = NoDocument
    /\ disk = NoDocuments
    /\ editorCall = NoEditorCall

SpecWire == WireInit /\ [][WireNext]_vars

StreamInit ==
    /\ payload = NoPayload
    /\ gen = 0
    /\ plain = <<>>
    /\ keyUsed = <<>>
    /\ tampered = "none"
    /\ outcome = NoOutcome
    /\ current_key_array = NoKeyArray
    /\ derivation = NoCall
    /\ remembered = NoCall
    /\ live = NoGenerator
    /\ key_file = NoFile
    /\ dumped = NoKeyArray
    /\ lastLoad = NoLoad
    /\ query = NoQuery
    /\ doc_file = NoFile
    /\ saved = NoSave
    /\ docCall = NoDocumentCall
    /\ wire = NoWire
    /\ wireCall = NoWireCall
    /\ streamCall = NoStreamCall
    /\ page = NoPage
    /\ pageCall = NoPageCall
    /\ editor = NoDocument
    /\ disk = NoDocuments
    /\ editorCall = NoEditorCall

SpecKeystream == StreamInit /\ [][StreamNext]_vars

PageInit ==
    /\ payload = NoPayload
    /\ gen = 0
    /\ plain = <<>>
    /\ keyUsed = <<>>
    /\ tampered = "none"
    /\ outcome = NoOutcome
    /\ current_key_array = NoKeyArray
    /\ derivation = NoCall
    /\ remembered = NoCall
    /\ live = NoGenerator
    /\ key_file = NoFile
    /\ dumped = NoKeyArray
    /\ lastLoad = NoLoad
    /\ query = NoQuery
    /\ doc_file = NoFile
    /\ saved = NoSave
    /\ docCall = NoDocumentCall
    /\ wire = NoWire
    /\ wireCall = NoWireCall
    /\ streamCall = NoStreamCall
    /\ page = NoPage
    /\ pageCall = NoPageCall
    /\ editor = NoDocument
    /\ disk = NoDocuments
    /\ editorCall = NoEditorCall

SpecKeyArrayPage == PageInit /\ [][PageNext]_vars

EditorInit ==
    /\ payload = NoPayload
    /\ gen = 0
    /\ plain = <<>>
    /\ keyUsed = <<>>
    /\ tampered = "none"
    /\ outcome = NoOutcome
    /\ current_key_array = NoKeyArray
    /\ derivation = NoCall
    /\ remembered = NoCall
    /\ live = NoGenerator
    /\ key_file = NoFile
    /\ dumped = NoKeyArray
    /\ lastLoad = NoLoad
    /\ query = NoQuery
    /\ doc_file = NoFile
    /\ saved = NoSave
    /\ docCall = NoDocumentCall
    /\ wire = NoWire
    /\ wireCall = NoWireCall
    /\ streamCall = NoStreamCall
    /\ page = NoPage
    /\ pageCall = NoPageCall
    /\ editor = NoDocument
    /\ disk = NoDocuments
    /\ editorCall = NoEditorCall

SpecEditor == EditorInit /\ [][EditorNext]_vars

(***************************************************************************)
(* Claims about the cipher engine (checked under SpecCrypto)               *)
(***************************************************************************)

\* C1: decrypting an unaltered payload with the key material it was
\* encrypted under returns exactly the plaintext, in each of the three
\* generations, whatever salt and nonce were drawn.
C1_RoundTrip ==
    (/\ outcome.op \in DecryptOps
     /\ tampered = "none"
     /\ outcome.key = keyUsed)
    => (outcome.status = "ok" /\ outcome.data = plain)

\* A v3 payload of a two-byte plaintext under a multi-byte key material has
\* been decrypted back.
C1_Witness ==
    /\ outcome.op = "decrypt"
    /\ gen = 3
    /\ tampered = "none"
    /\ outcome.key = keyUsed
    /\ keyUsed = <<65, 233>>
    /\ Len(plain) = 2
    /\ plain[1] # plain[2]
    /\ outcome.data = plain

\* C2: a v2 or v3 payload with one byte of its ciphertext, nonce, salt or mac
\* changed fails the matching decrypt (under the original key material) with
\* the authentication failure, and no plaintext is returned.
C2_TamperDetected ==
    (/\ outcome.op \in {"decrypt_v2", "decrypt"}
     /\ tampered # "none"
     /\ outcome.key = keyUsed)
    => (outcome.status = "authentication_failed" /\ outcome.data = <<>>)

\* A v2 payload whose salt (which the v2 MAC input does not contain) was
\* changed has been rejected.
C2_Witness ==
    /\ outcome.op = "decrypt_v2"
    /\ tampered = "salt"
    /\ outcome.key = keyUsed
    /\ Len(plain) >= 1
    /\ outcome.status = "authentication_failed"

\* The MAC decrypt_v2 / decrypt expects for the current payload under the
\* key material of the last call.
ExpectedMacOfLastCall ==
    LET keys == DeriveKeys(outcome.key, payload.salt)
    IN  IF outcome.op = "decrypt_v2"
        THEN HmacSha256(keys.mac_key,
                        MacInputV2(payload.salt, payload.nonce, payload.ciphertext))
        ELSE HmacSha256(keys.mac_key,
                        MacInputV3(payload.salt, payload.nonce, payload.ciphertext,
                                   Sha512(Utf8Encode(outcome.key))))

\* C3: whenever the MAC decrypt_v2 or decrypt (v3, non-empty key material)
\* expects differs from the payload's mac, the call ends in the
\* authentication failure, having generated no keystream block and returned
\* no plaintext byte.
C3_MacBeforeKeystream ==
    (/\ outcome.op \in {"decrypt_v2", "decrypt"}
     /\ (outcome.op = "decrypt" => outcome.key # <<>>)
     /\ ExpectedMacOfLastCall # payload.mac)
    => (/\ outcome.status = "authentication_failed"
        /\ outcome.blocks = 0
        /\ outcome.data = <<>>)

\* decrypt_v2 was called with the wrong key material on an unaltered payload
\* that holds ciphertext, and failed.
C3_Witness ==
    /\ outcome.op = "decrypt_v2"
    /\ tampered = "none"
    /\ outcome.key # keyUsed
    /\ Len(payload.ciphertext) >= 1
    /\ outcome.status = "authentication_failed"
    /\ outcome.blocks = 0

(***************************************************************************)
(* Claims about key derivation (checked under SpecDerive)                  *)
(***************************************************************************)

\* The cells of layer number i (from 0) of key array A at the coordinates
\* that pattern number d yields for that layer, in the order of the yields.
CellsRead(A, i, d) ==
    LET layer == A.layers.v[i + 1]
        coords == CallPattern(RegisteredPatterns[d + 1], layer)
    IN  [k \in 1..Len(coords) |-> layer.v[coords[k][1] + 1].v[coords[k][2] + 1]]

\* C4: for every accepted password p and key array A the key material is
\* the concatenation, for i = 0..9 in that order, of the cells of layer i
\* read in the order that pattern int(p[i]) yields its coordinates; layer i
\* serves position i only.
C4_MaterialIsConcatenation ==
    (derivation.op = "password_to_key_material" /\ derivation.status = "ok")
    => derivation.material =
         Chain([i \in 1..10 |->
                  Join(CellsRead(current_key_array, i - 1,
                                 IntOfChar(derivation.password[i]).value))])

\* Key material was derived from "9876543210" over the generated key array.
C4_Witness ==
    /\ derivation.op = "password_to_key_material"
    /\ derivation.status = "ok"
    /\ derivation.password = DigitPassword(48, 9, 9)
    /\ current_key_array = Generate(42)
    /\ Len(derivation.material) > 10 * ELEMENT_LENGTH

IsAsciiDigits10(password) ==
    Len(password) = 10 /\ \A i \in 1..Len(password) : password[i] \in 48..57

\* C6: validate_password accepts a string if and only if it has exactly 10
\* characters, each an ASCII digit '0'..'9'; every other string is rejected
\* and password_to_key_material derives nothing for it.
C6_AcceptsExactlyAsciiDigits ==
    derivation.op # "none"
    => /\ (derivation.status = "ok") <=> IsAsciiDigits10(derivation.password)
       /\ ~IsAsciiDigits10(derivation.password) => derivation.material = <<>>

\* C7: a password of a length other than 10 fails with the length reason, a
\* password of length 10 that holds a character other than '0'..'9' fails
\* with the digits-only reason, and the two reasons differ.
C7_DistinctReasons ==
    derivation.op # "none"
    => /\ Len(derivation.password) # 10
            => derivation.status = "Password must be exactly 10 digits long"
       /\ (Len(derivation.password) = 10 /\ ~IsAsciiDigits10(derivation.password))
            => derivation.status = "Password must contain digits only"

(***************************************************************************)
(* Claims about the key store (checked under SpecKeyArray)                 *)
(***************************************************************************)

\* C8: KeyArray.load of the file that KeyArray.dump(A) wrote returns a key
\* array equal to A, layer for layer, row for row and cell for cell, for
\* every A that was generated or loaded.
C8_DumpLoadRoundTrip ==
    (lastLoad.op = "load" /\ IsKeyArray(lastLoad.of))
    => /\ lastLoad.error = "none"
       /\ PyEq(lastLoad.key_array.layers, lastLoad.of.layers)

\* An array loaded from a file written elsewhere, whose cells need escaping,
\* was dumped and loaded back.
C8_Witness ==
    /\ lastLoad.op = "load"
    /\ lastLoad.error = "none"
    /\ IsKeyArray(lastLoad.of)
    /\ PyEq(lastLoad.of.layers, SpecialLayers)

\* The structural error of KeyArray.load
StructuralError == "Invalid key file: unexpected structure"

\* C9: when the parsed top-level value is not a list, or is a list of a
\* length other than 10, KeyArray.load fails with the structural error and
\* constructs no KeyArray.
C9_WrongTopLevelRejected ==
    (/\ lastLoad.op = "load"
     /\ lastLoad.data.error = "none"
     /\ (lastLoad.data.value.t # "list" \/ Len(lastLoad.data.value.v) # 10))
    => /\ lastLoad.error = StructuralError
       /\ ~IsKeyArray(lastLoad.key_array)

\* A file holding a list of eleven layers was loaded.
C9_Witness ==
    /\ lastLoad.op = "load"
    /\ lastLoad.data.error = "none"
    /\ lastLoad.data.value.t = "list"
    /\ Len(lastLoad.data.value.v) = 11
    /\ lastLoad.error = StructuralError

\* Whether x is a list whose items are lists (rows) of lists of str (cells).
IsLayer(x) ==
    /\ x.t = "list"
    /\ \A r \in 1..Len(x.v) :
         /\ x.v[r].t = "list"
         /\ \A c \in 1..Len(x.v[r].v) : x.v[r].v[c].t = "str"

\* C10: when some layer of the parsed value is not a list of rows, some row
\* is not a list or some cell is not a string, KeyArray.load fails with the
\* structural error and returns no KeyArray.
C10_WrongShapeRejected ==
    (/\ lastLoad.op = "load"
     /\ lastLoad.data.error = "none"
     /\ lastLoad.data.value.t = "list"
     /\ \E l \in 1..Len(lastLoad.data.value.v) : ~IsLayer(lastLoad.data.value.v[l]))
    => /\ lastLoad.error = StructuralError
       /\ ~IsKeyArray(lastLoad.key_array)

(***************************************************************************)
(* Claims about the accessors (checked under SpecAccessors)                *)
(***************************************************************************)

\* C11: KeyArray.layer(index) returns layer number index when
\* 0 <= index < 10 and fails with IndexError for every other integer index,
\* the negative ones included.
C11_LayerBoundsChecked ==
    query.op = "layer"
    => IF 0 <= query.arg /\ query.arg < 10
       THEN /\ query.error = "none"
            /\ PyEq(query.layer, current_key_array.layers.v[query.arg + 1])
       ELSE query.error = "IndexError"

\* C12: registry.coordinates(digit, layer) fails with the unknown-pattern
\* error and gives no generator for every digit outside [0, 10), below 0 as
\* well as above 9; for a digit in [0, 10) it gives the coordinates of the
\* pattern registered under that index.
C12_UnknownPatternRejected ==
    query.op = "coordinates"
    => IF 0 <= query.arg /\ query.arg < 10
       THEN /\ query.error = "none"
            /\ query.generator.pattern = RegisteredPatterns[query.arg + 1]
       ELSE /\ query.error = "Unknown pattern index"
            /\ query.generator = NoGenerator

\* The cells of an N x N grid, and the grid read row by row.
Grid(N) == (0..(N - 1)) \X (0..(N - 1))
RowMajor(N) == [k \in 1..(N * N) |-> <<(k - 1) \div N, (k - 1) % N>>]

\* The coordinates a sequence holds, and whether it holds none twice.
Yielded(coords) == {coords[k] : k \in 1..Len(coords)}
NoRepeats(coords) ==
    \A i \in 1..Len(coords), j \in 1..Len(coords) : i < j => coords[i] # coords[j]

\* C13: over a grid of any dimension N, pattern 0 yields the N * N
\* coordinates of the grid, each once, in row-major order; patterns 1 and 2
\* yield no coordinate in common and every coordinate of the grid is
\* yielded exactly once by exactly one of them.
C13_FillAndCheckerboards ==
    (query.op = "coordinates" /\ query.error = "none")
    => LET N == query.size
           coords == query.generator.coords
           layer == LayerOf(current_key_array, 0).value
       IN  /\ query.arg = 0
                => /\ coords = RowMajor(N)
                   /\ Len(coords) = N * N
                   /\ NoRepeats(coords)
                   /\ Yielded(coords) = Grid(N)
           /\ query.arg \in {1, 2}
                => LET other == Coordinates(3 - query.arg, layer).value.coords
                   IN  /\ Yielded(coords) \cap Yielded(other) = {}
                       /\ Yielded(coords) \cup Yielded(other) = Grid(N)
                       /\ NoRepeats(coords \o other)

\* The odd checkerboard over a grid of dimension 3 or more was asked for and
\* iterated to its end.
C13_Witness ==
    /\ query.op = "coordinates"
    /\ query.arg = 2
    /\ query.size >= 3
    /\ live.pattern = "pattern_checkerboard_b"
    /\ live.pos = Len(live.coords)
    /\ live.pos > 0

\* The four directions in clockwise order: east, south, west, north.
Directions == << <<0, 1>>, <<1, 0>>, <<0, -1>>, <<-1, 0>> >>

\* The walk that goes on from cell in direction d over the cells not walked
\* yet, keeps straight while it can and turns clockwise when it cannot.
RECURSIVE ClockwiseWalkFrom(_, _, _, _)
ClockwiseWalkFrom(N, cell, d, walked) ==
    LET path == Append(walked, cell)
        turned == (d % 4) + 1
        ahead == <<cell[1] + Directions[d][1], cell[2] + Directions[d][2]>>
        aside == <<cell[1] + Directions[turned][1], cell[2] + Directions[turned][2]>>
        Free(c) == c \in Grid(N) /\ c \notin Yielded(path)
    IN  IF Free(ahead) THEN ClockwiseWalkFrom(N, ahead, d, path)
        ELSE IF Free(aside) THEN ClockwiseWalkFrom(N, aside, turned, path)
        ELSE path

\* The clockwise inward walk from the top left corner, eastwards first.
ClockwiseWalk(N) == IF N = 0 THEN <<>> ELSE ClockwiseWalkFrom(N, <<0, 0>>, 1, <<>>)

\* C14: over a grid of any dimension N, pattern 7 yields every coordinate
\* of the grid exactly once, the top row from left to right first and then
\* clockwise inwards.
C14_SpiralIsPermutation ==
    (query.op = "coordinates" /\ query.error = "none" /\ query.arg = 7)
    => LET N == query.size
           coords == query.generator.coords
       IN  /\ Len(coords) = N * N
           /\ NoRepeats(coords)
           /\ Yielded(coords) = Grid(N)
           /\ \A k \in 1..N : coords[k] = <<0, k - 1>>
           /\ coords = ClockwiseWalk(N)

\* The spiral over a grid of dimension 3 or more was asked for and iterated
\* to its end.
C14_Witness ==
    /\ query.op = "coordinates"
    /\ query.arg = 7
    /\ query.size >= 3
    /\ live.pattern = "pattern_spiral"
    /\ live.pos = Len(live.coords)
    /\ live.pos > 0

\* C15: over a grid of dimension N >= 1 every pattern 0..9 yields a finite
\* sequence that holds no coordinate twice and only coordinates (row, col)
\* with 0 <= row < N and 0 <= col < N.
C15_DistinctAndInRange ==
    (/\ query.op = "coordinates"
     /\ query.error = "none"
     /\ query.arg \in 0..9
     /\ query.size >= 1)
    => /\ NoRepeats(query.generator.coords)
       /\ Yielded(query.generator.coords) \subseteq Grid(query.size)

(***************************************************************************)
(* Claims about documents (checked under SpecDocuments)                    *)
(***************************************************************************)

\* The keys of a dict, in their order.
DictKeys(d) == [k \in 1..Len(d.v) |-> d.v[k].key]

\* The envelope is an object of a version tag 3 and a payload whose salt,
\* nonce, ciphertext and mac are the base64 texts of the payload p.
IsCurrentEnvelope(data, p) ==
    /\ data.t = "dict"
    /\ DictKeys(data) = <<KeyVersion, KeyPayload>>
    /\ DictItem(data, KeyVersion) = PyInt(3)
    /\ DictItem(data, KeyPayload).t = "dict"
    /\ DictKeys(DictItem(data, KeyPayload)) = <<KeySalt, KeyNonce, KeyCiphertext, KeyMac>>
    /\ FromDict(DictItem(data, KeyPayload)) = [error |-> "none", payload |-> p]

\* C16: a save that succeeds has called the v3 encrypt and left a file whose
\* envelope has the version tag 3 and a payload of salt, nonce, ciphertext
\* and mac; loading a saved file with the key material it was saved under
\* returns the text that was saved.
C16_SaveThenLoadReturnsText ==
    /\ (docCall.op = "save" /\ docCall.wrote) =>
          /\ docCall.steps = <<"encrypt", "EncryptedPayload.to_dict">>
          /\ docCall.crypto.data.class = "EncryptedPayload"
          /\ "_keystream_v3" \in {docCall.crypto.steps[k] : k \in 1..Len(docCall.crypto.steps)}
          /\ JsonLoads(doc_file).error = "none"
          /\ IsCurrentEnvelope(JsonLoads(doc_file).value, docCall.crypto.data)
    /\ (docCall.op = "load" /\ docCall.of.by = "save" /\ docCall.key = docCall.of.key) =>
          /\ docCall.error = "none"
          /\ docCall.text = docCall.of.text

\* A saved text of two- and four-byte characters was loaded with its key.
C16_Witness ==
    /\ docCall.op = "load"
    /\ docCall.of = [text |-> <<233, 128512>>, key |-> <<106>>, by |-> "save"]
    /\ docCall.key = <<106>>
    /\ docCall.error = "none"
    /\ docCall.text = <<233, 128512>>
    /\ docCall.steps = <<"EncryptedPayload.from_dict", "decrypt">>

\* The calls of the three decode paths, in order.
LegacyPath == <<"LegacyEncryptedPayload.from_dict", "decrypt_legacy">>
V2Path == <<"EncryptedPayload.from_dict", "decrypt_v2">>
V3Path == <<"EncryptedPayload.from_dict", "decrypt">>

\* The calls made are the first call of the path, or the whole path.
RunsOnly(steps, path) == steps = <<path[1]>> \/ steps = path

\* The document has the version tag n.
Tagged(data, n) == DictHas(data, KeyVersion) /\ DictItem(data, KeyVersion) = PyInt(n)

\* C17: a load of a document object that holds a payload runs the decode
\* path of its version tag and no other, whatever the payload looks like:
\* the legacy path for no tag or tag 1, the v2 path for tag 2 and the v3
\* path for tag 3.
C17_PathChosenByTagOnly ==
    (docCall.op = "load" /\ docCall.data.t = "dict" /\ DictHas(docCall.data, KeyPayload)) =>
        /\ (~DictHas(docCall.data, KeyVersion) \/ Tagged(docCall.data, 1)) =>
               RunsOnly(docCall.steps, LegacyPath)
        /\ Tagged(docCall.data, 2) => RunsOnly(docCall.steps, V2Path)
        /\ Tagged(docCall.data, 3) => RunsOnly(docCall.steps, V3Path)

\* A document tagged 1 whose payload has the shape of the current
\* generation was loaded, and the legacy path ran to its decryption.
C17_Witness ==
    /\ docCall.op = "load"
    /\ docCall.data.t = "dict"
    /\ Tagged(docCall.data, 1)
    /\ DictHas(docCall.data, KeyPayload)
    /\ DictItem(docCall.data, KeyPayload).t = "dict"
    /\ DictHas(DictItem(docCall.data, KeyPayload), KeyMac)
    /\ docCall.steps = LegacyPath
    /\ docCall.crypto.steps = <<"sha256">>

\* C18: a load of a document object whose version tag is present and is
\* none of 1, 2 and 3 raises the unsupported-version error, decodes no
\* payload and calls no cipher function.
C18_UnknownTagRejected ==
    (/\ docCall.op = "load"
     /\ docCall.data.t = "dict"
     /\ DictHas(docCall.data, KeyVersion)
     /\ ~Tagged(docCall.data, 1) /\ ~Tagged(docCall.data, 2) /\ ~Tagged(docCall.data, 3)) =>
        /\ docCall.error = "Unsupported Shopot document version"
        /\ docCall.steps = <<>>
        /\ docCall.crypto = NoResult

\* The cipher function stopped at the check of the key material: it raised
\* the empty-key-material error having split no key and computed no MAC and
\* no keystream block.
StoppedAtMaterial(r) ==
    /\ r.status = "empty_key_material"
    /\ r.steps = <<"_material_bytes">>
    /\ r.blocks = 0
    /\ r.data = <<>>

\* C19: with empty key material the v3 encrypt (called by save) and the v3
\* decrypt (called by load on a payload of any origin) raise the
\* empty-key-material error before a key is split or a MAC or a keystream
\* block is computed, and such a save leaves the file as it was.
C19_EmptyKeyMaterialRejected ==
    /\ [](/\ (docCall.op = "save" /\ docCall.key = <<>>) =>
               /\ docCall.error = "empty_key_material"
               /\ StoppedAtMaterial(docCall.crypto)
               /\ ~docCall.wrote
          /\ (docCall.op = "load" /\ docCall.key = <<>> /\ docCall.steps = V3Path) =>
               /\ docCall.error = "empty_key_material"
               /\ StoppedAtMaterial(docCall.crypto))
    /\ [][(docCall' # docCall /\ docCall'.op = "save" /\ docCall'.key = <<>>) =>
             (doc_file' = doc_file /\ saved' = saved)]_vars

\* A saved document was loaded with empty key material and decrypt raised.
C19_Witness ==
    /\ docCall.op = "load"
    /\ docCall.key = <<>>
    /\ docCall.of.by = "save"
    /\ docCall.steps = V3Path
    /\ docCall.error = "empty_key_material"

\* The load raised before any decrypt function was called.
RejectedUndecrypted == docCall.error # "none" /\ Len(docCall.steps) < 2

\* C21: a load of a document whose payload does not have the shape of its
\* tag is rejected before anything is decrypted: no tag or tag 1 with a
\* payload that carries nonce and mac, and tag 2 or 3 with a payload that
\* lacks nonce or mac.
C21_TagBoundToPayloadShape ==
    (/\ docCall.op = "load"
     /\ docCall.data.t = "dict"
     /\ DictHas(docCall.data, KeyPayload)
     /\ DictItem(docCall.data, KeyPayload).t = "dict") =>
        /\ (/\ (~DictHas(docCall.data, KeyVersion) \/ Tagged(docCall.data, 1))
            /\ DictHas(DictItem(docCall.data, KeyPayload), KeyNonce)
            /\ DictHas(DictItem(docCall.data, KeyPayload), KeyMac)) => RejectedUndecrypted
        /\ (/\ (Tagged(docCall.data, 2) \/ Tagged(docCall.data, 3))
            /\ \/ ~DictHas(DictItem(docCall.data, KeyPayload), KeyNonce)
               \/ ~DictHas(DictItem(docCall.data, KeyPayload), KeyMac)) => RejectedUndecrypted

(***************************************************************************)
(* Claims about a payload on the wire (checked under SpecWire)             *)
(***************************************************************************)

\* C20: when one bit of the base64 text of the mac of the serialized v3
\* payload of "hello" under "k" is flipped, from_dict followed by decrypt
\* with "k" raises the authentication failure.
C20_FlippedMacTextFailsAuthentication ==
    (wireCall.op = "decrypt" /\ wire.flip # <<>>) =>
        wireCall.error = "authentication_failed"

(***************************************************************************)
(* Claims about the legacy cipher (checked under SpecCrypto)               *)
(***************************************************************************)

\* The ciphertext encrypt_legacy produced for the stored payload's salt.
OriginalLegacyCiphertext == EncryptLegacyFn(plain, keyUsed, payload.salt).data.ciphertext

\* C22: decrypt_legacy never fails and returns as many bytes as the
\* ciphertext has, for every key material and for a payload whose salt or
\* ciphertext was changed; with the key material of the encryption and the
\* salt intact, the bytes returned differ from the plaintext at exactly the
\* positions where the ciphertext was changed.
C22_LegacyDecryptsSilently ==
    outcome.op = "decrypt_legacy" =>
        /\ outcome.status = "ok"
        /\ Len(outcome.data) = Len(payload.ciphertext)
        /\ (outcome.key = keyUsed /\ tampered # "salt") =>
              \A i \in 1..Len(plain) :
                  (outcome.data[i] # plain[i]) <=>
                      (payload.ciphertext[i] # OriginalLegacyCiphertext[i])

\* A legacy payload whose second ciphertext byte was changed was decrypted
\* with the key material of its encryption: the first byte came back, the
\* second did not, and nothing was raised.
C22_Witness ==
    /\ outcome.op = "decrypt_legacy"
    /\ outcome.status = "ok"
    /\ tampered = "ciphertext"
    /\ outcome.key = keyUsed
    /\ Len(plain) = 2
    /\ outcome.data[1] = plain[1]
    /\ outcome.data[2] # plain[2]

(***************************************************************************)
(* Claims about keystreams (checked under SpecKeystream)                   *)
(***************************************************************************)

\* ceil(length / 64)
BlocksNeeded(length) == (length + BlockSize - 1) \div BlockSize

\* The block the called generation computes for the counter value c.
BlockNumbered(c) ==
    IF streamCall.op = "encrypt_legacy"
    THEN Sha512(Sha256(Utf8Encode(streamCall.key_material) \o streamCall.payload.salt)
                \o CounterBytes(c))
    ELSE IF streamCall.op = "encrypt_v2"
    THEN HmacSha512(DeriveKeys(streamCall.key_material, streamCall.payload.salt).enc_key,
                    streamCall.payload.nonce \o CounterBytes(c))
    ELSE HmacSha512(DeriveKeys(streamCall.key_material, streamCall.payload.salt).enc_key,
                    streamCall.payload.salt \o streamCall.payload.nonce
                        \o CounterBytes(c)
                        \o Rotated(Utf8Encode(streamCall.key_material),
                                   c % Len(Utf8Encode(streamCall.key_material))))

\* The blocks numbered 0, 1, ..., n - 1 laid end to end.
RECURSIVE BlocksUpTo(_)
BlocksUpTo(n) == IF n = 0 THEN <<>> ELSE BlocksUpTo(n - 1) \o BlockNumbered(n - 1)

\* C23: in each generation an encryption of L bytes computes ceil(L / 64)
\* keystream blocks (none for L = 0), every block has 64 bytes, the
\* ciphertext has L bytes, and the keystream (ciphertext xor plaintext) is
\* the first L bytes of the blocks numbered 0, 1, 2, ... laid end to end.
C23_KeystreamBlocks ==
    streamCall.op # "none" =>
        /\ streamCall.blocks = BlocksNeeded(streamCall.length)
        /\ Len(streamCall.payload.ciphertext) = streamCall.length
        /\ \A c \in 0..(streamCall.blocks - 1) : Len(BlockNumbered(c)) = BlockSize
        /\ XorBytes(streamCall.payload.ciphertext, streamCall.plaintext)
             = SubSeq(BlocksUpTo(BlocksNeeded(streamCall.length)), 1, streamCall.length)

\* The current generation encrypted 129 bytes with three blocks, the last
\* of which gave one byte.
C23_Witness ==
    /\ streamCall.op = "encrypt"
    /\ streamCall.length = 129
    /\ streamCall.blocks = 3
    /\ Len(streamCall.payload.ciphertext) = 129
    /\ streamCall.key_material = <<65, 233>>

(***************************************************************************)
(* Claims about the key array page.                                        *)
(***************************************************************************)

\* A key array is held by the page.
Held == IsKeyArray(page.key_array)

\* Two pages hold the same key array and show the same layer, label and
\* text.
SamePage(p, q) ==
    /\ PyEq(p.key_array.layers, q.key_array.layers)
    /\ p.current_layer = q.current_layer
    /\ p.layer_label = q.layer_label
    /\ p.text = q.text

\* The number of layers of the key array the page holds.
TotalLayers == Len(page.key_array.layers.v)

\* C24: after any sequence of load_key_array, generate_key_array,
\* prev_layer and next_layer, whenever a key array is held current_layer
\* lies in [0, number of layers); next_layer from the last layer goes to
\* layer 0 and prev_layer from layer 0 to the last layer; prev_layer after
\* next_layer restores the layer; a successful load or generate resets the
\* layer to 0; prev_layer and next_layer change nothing while no key array
\* is held.
C24_LayerNavigation ==
    /\ [](Held => page.current_layer \in 0..(TotalLayers - 1))
    /\ [][/\ (pageCall'.op = "next_layer" /\ Held /\ page.current_layer = TotalLayers - 1)
              => page'.current_layer = 0
          /\ (pageCall'.op = "prev_layer" /\ Held /\ page.current_layer = 0)
              => page'.current_layer = TotalLayers - 1
          /\ (pageCall.op = "next_layer" /\ pageCall'.op = "prev_layer")
              => page'.current_layer = pageCall.before
          /\ (pageCall'.op \in {"load_key_array", "generate_key_array"}
                 /\ pageCall'.error = "none")
              => (page'.current_layer = 0 /\ IsKeyArray(page'.key_array))
          /\ (pageCall'.op \in {"prev_layer", "next_layer"} /\ ~Held)
              => SamePage(page', page)]_vars

\* next_layer has run on the last layer of a held key array and the page
\* shows layer 0.
C24_Witness ==
    /\ Held
    /\ pageCall.op = "next_layer"
    /\ pageCall.before = LAYER_COUNT - 1
    /\ page.current_layer = 0
    /\ page.layer_label = [layer |-> 1, total |-> LAYER_COUNT]

(***************************************************************************)
(* Claims about the document editor.                                       *)
(***************************************************************************)

\* C25: save_document_as changes current_document_path and reports "Saved"
\* only when the document was written to the chosen path: when the save is
\* refused for want of a key array or password, or fails,
\* current_document_path and the status keep their values.
C25_SavedOnlyWhenWritten ==
    [][(editorCall'.op = "save_document_as" /\ ~editorCall'.wrote)
         => /\ editor'.current_document_path = editor.current_document_path
            /\ editor'.status = editor.status]_vars

\* The editor holds a key array; the editor holds a password.
HasKeyArray == IsKeyArray(editor.key_array)
HasPassword == editor.current_password.t = "str"

\* C26: after any sequence of open_document_flow, create_new_document,
\* set_key_context, save_document and save_document_as, key_array and
\* current_password are both unset or both set; create_new_document unsets
\* both; no document file is written by a handler that starts without a key
\* context; and a key context comes only from a set_key_context or an
\* open_document_flow that succeeds.
C26_NoWriteWithoutKeyContext ==
    /\ [](HasKeyArray <=> HasPassword)
    /\ [][/\ (editorCall'.op = "create_new_document")
              => (~IsKeyArray(editor'.key_array)
                    /\ editor'.current_password.t = "NoneType")
          /\ MissingKey(editor) => (disk' = disk /\ ~editorCall'.wrote)
          /\ (MissingKey(editor) /\ ~MissingKey(editor'))
              => (editorCall'.op \in {"set_key_context", "open_document_flow"}
                    /\ editorCall'.outcome = "done")]_vars

\* A document was written under a key context, a new document was created,
\* and its save was refused.
C26_Witness ==
    /\ editorCall.op = "save_document"
    /\ editorCall.outcome = "refused"
    /\ ~HasKeyArray
    /\ ~HasPassword
    /\ disk["a.shpt"] # NoFile

\* Two editors hold the same key context.
SameKeyContext(e, f) ==
    /\ PyEq(e.key_array.layers, f.key_array.layers)
    /\ e.current_key_path = f.current_key_path
    /\ e.current_password = f.current_password

\* C27: a set_key_context that is cancelled or whose key file or password
\* is rejected leaves key_array, current_key_path and current_password as
\* they were; an open_document_flow that is cancelled or in which key
\* loading, derivation or the loading of the document fails leaves the
\* text, current_document_path, the key context and the shown page as they
\* were.
C27_FailedSelectionKeepsEditor ==
    [][/\ (editorCall'.op = "set_key_context"
             /\ editorCall'.outcome \in {"cancelled", "failed"})
          => SameKeyContext(editor', editor)
      /\ (editorCall'.op = "open_document_flow"
             /\ editorCall'.outcome \in {"cancelled", "failed"})
          => /\ editor'.text = editor.text
             /\ editor'.current_document_path = editor.current_document_path
             /\ SameKeyContext(editor', editor)
             /\ editor'.shown = editor.shown]_vars

\* An edited document is shown under a key context and the opening of a
\* document saved under another key has failed.
C27_Witness ==
    /\ editorCall.op = "open_document_flow"
    /\ editorCall.outcome = "failed"
    /\ editorCall.error = "authentication_failed"
    /\ editor.shown = "DocumentEditorPage"
    /\ HasKeyArray
    /\ editor.text = <<104, 105>>
    /\ editor.current_document_path = PathOf("a.shpt")

====
